---- MODULE Spec2Model ----
(***************************************************************************)
(* Model of the MiskOS scheduler (kernel/src/Scheduler.cpp) and of the     *)
(* interrupt paths that enter it (kernel/src/InterruptHandlers.cpp).       *)
(*                                                                         *)
(* The run queue `taskQueue` is ONE global vector shared by the schedulers *)
(* of all cores (Scheduler.cpp:18); every Scheduler object owns its own    *)
(* currentTask, idleTask, restoreFrame, timerEntries and currentTimerTime. *)
(* A handler runs with interrupts disabled on its core and touches the     *)
(* queue under taskQueueLock, so one handler is one step.                  *)
(***************************************************************************)
EXTENDS Integers, Sequences, FiniteSets, TLC

\* ------------------------------------------------------------- bounds
MaxPid == 3         \* tasks ever created (fork / exec stop at this PID)
MaxSleep == 3       \* largest Sleep(ms) argument drawn
MaxRax == 1         \* register values drawn: 0..MaxRax
SleepGap == 10      \* ms between the durations of the sleep-ordering scenario
MaxDescriptors == 4 \* longest descriptor table a system call may build
MaxInode == 6       \* inodes of the file system: 2..MaxInode
MaxCount == 1       \* largest count / offset argument of Read and Seek
MaxError == 2       \* error kinds a system call reports: 1..MaxError
MaxCache == 4       \* vnodes the cache may hold
MaxEntry == 2       \* entry addresses of ELF headers: 1..MaxEntry
MaxHeaders == 2     \* program headers of an ELF image

\* ------------------------------------------------- program constants
TimeSlice == 100    \* closestTime = 100 in ConfigureTimerClosestExpiry
RTDL_ADDR == 1073741824     \* constexpr uintptr_t RTDL_ADDR = 0x40000000
PageSize == 4096            \* 0x1000 in LoadProgramHeader
INODE_ROOT_DIR == 2 \* inode number of the root directory

\* The machine: the bootstrap processor and one application processor.
BSP == "bsp"
CPUs == {BSP, "ap"}
Pids == 1..MaxPid
RaxValues == 0..MaxRax

VARIABLES
    taskQueue,          \* Vector<Task>* taskQueue: the global run queue
    nextPid,            \* static uint64_t pid of CreateTask
    currentTask,        \* [cpu -> Task]  Scheduler::currentTask
    restoreFrame,       \* [cpu -> BOOLEAN] Scheduler::restoreFrame
    timerEntries,       \* [cpu -> Seq(TimerEntry)] Scheduler::timerEntries
    currentTimerTime,   \* [cpu -> Nat] Scheduler::currentTimerTime
    cpu,                \* [cpu -> frame] live registers of the core: what an
                        \* interrupt pushes as its InterruptFrame
    panic,              \* "none", or why the kernel halted (Panic / Assert)
    lastOp,             \* the handler that ran last, with its arguments
    fileDescriptors,    \* [VFS object -> Seq(FileDescriptor)]: the descriptor
                        \* table of every VFS object allocated with new VFS
    inodes,             \* [inode number -> inode]: the ext2 volume
    vnodeCache          \* Seq(Vnode): the vnodes handed to VFS::CacheVNode

vars == <<taskQueue, nextPid, currentTask, restoreFrame, timerEntries,
          currentTimerTime, cpu, panic, lastOp, fileDescriptors, inodes,
          vnodeCache>>

\* ------------------------------------------------------------ helpers
Push(v, x) == Append(v, x)

\* Vector::Pop(i) removes the element at index i; the caller reads v[i] first.
Pop(v, i) == SubSeq(v, 1, i - 1) \o SubSeq(v, i + 1, Len(v))

Frame(rax, rip) == [rax |-> rax, rip |-> rip]

\* rip values: where a task resumes.
\*   "user"      in user code (interrupts enabled)
\*   "idle"      in Idle()'s hlt loop
\*   "int81"     inside SuspendSystemCall, state set, int 0x81 not yet raised
\*   "resumed"   inside SuspendSystemCall, at the instruction after int 0x81
\* syscallStackAddr names the system-call stack the task enters the kernel
\* on: each call of CreateTask requests fresh page frames (lines 37-40), so
\* the region is named after the PID it was allocated for. vfs is the
\* pointer task.vfs: every caller passes a VFS object it has just allocated
\* (lines 260, 285, 314), named after the PID too.
CreateTask(pid, rip) ==
    [pid |-> pid, state |-> "Normal", frame |-> Frame(0, rip),
     syscallStackAddr |-> pid, vfs |-> pid]

IdleTask == CreateTask(0, "idle")

InitialRestoreFrame == FALSE

Op(name, c, pid, val) == [op |-> name, cpu |-> c, pid |-> pid, val |-> val]

QueuePids(q) == {q[i].pid : i \in 1..Len(q)}

\* ------------------------------------------------------------ the VFS
\* VFS.cpp works on `process->fileDescriptors`; Scheduler.cpp reaches the
\* same table through task.vfs. A VFS object is named after the PID of the
\* task it was allocated for; 0 is the idle task's.
VFSObjects == 0..MaxPid

InodeNums == INODE_ROOT_DIR..MaxInode

VNode(name, inodeNum) == [name |-> name, inodeNum |-> inodeNum]

Inode(type, size0, listing) ==
    [type |-> type, size0 |-> size0, listing |-> listing]

FileDescriptor(present, offset, vNode) ==
    [present |-> present, offset |-> offset, vNode |-> vNode]

\* The volume the kernel boots from: /dev/tty, the one-byte file /a, and
\* unused inodes. listing is what GetDirectoryListing returns, in order
\* (entries with inode 0 are skipped, "." and ".." are left out).
Ext2Image ==
    [n \in InodeNums |->
        CASE n = INODE_ROOT_DIR ->
                 Inode("Directory", 1, <<VNode("dev", 3), VNode("a", 5)>>)
          [] n = 3 -> Inode("Directory", 1, <<VNode("tty", 4)>>)
          [] n = 4 -> Inode("CharacterDevice", 0, <<>>)
          [] n = 5 -> Inode("RegularFile", 1, <<>>)
          [] OTHER -> Inode("Free", 0, <<>>)]

\* A path is the sequence of its tokens after the leading '/'.
TtyPath == <<"dev", "tty">>
Paths == {TtyPath, <<"a">>, <<"b">>, <<"dev", "b">>, <<"x", "a">>}

OpenFlagSets == {{}, {"OCreate"}}
SeekTypes == {"SeekSet", "SeekCursor", "SeekEnd"}

\* The descriptors past the three CreateTaskFromELF opens.
ForkDescriptors == 3..(MaxDescriptors - 1)

Least(S) == CHOOSE n \in S : \A m \in S : n <= m
Greatest(S) == CHOOSE n \in S : \A m \in S : n >= m

\* TraversePath lines 26-44: one iteration of the while loop per token.
\* The for loop stops at the first entry of the listing with the token's
\* name (break, line 37). The KAssert of line 43 halts the kernel when a
\* token that is not the last one has no entry.
RECURSIVE TraverseLoop(_, _, _, _, _)
TraverseLoop(fs, path, i, currentInode, lastVNode) ==
    LET listing == fs[currentInode].listing
        hits == {k \in 1..Len(listing) : listing[k].name = path[i]}
        foundNextInode == hits # {}
        nodeInDirectory == listing[Least(hits)]
        remainingPathDepth == Len(path) - i
    IN  IF ~foundNextInode /\ remainingPathDepth # 0
        THEN [vNode |-> lastVNode, exists |-> FALSE,
              finalPathToken |-> path[i], halted |-> TRUE]
        ELSE IF remainingPathDepth = 0
        THEN [vNode |-> IF foundNextInode THEN nodeInDirectory ELSE lastVNode,
              exists |-> foundNextInode,
              finalPathToken |-> path[i], halted |-> FALSE]
        ELSE TraverseLoop(fs, path, i + 1, nodeInDirectory.inodeNum,
                          nodeInDirectory)

\* TraversePath: starts at the root directory with lastVNode = VNode("", 2).
TraversePath(fs, path) ==
    TraverseLoop(fs, path, 1, INODE_ROOT_DIR, VNode("", INODE_ROOT_DIR))

\* Ext2Inode::Read: the bytes between offset and the end of the file, at
\* most count of them.
InodeRead(inode, count, offset) ==
    IF offset >= inode.size0 THEN 0
    ELSE IF count < inode.size0 - offset THEN count
    ELSE inode.size0 - offset

\* Ext2Inode::Create: a new empty regular file on the lowest free inode,
\* entered at the end of the directory.
InodeCreate(fs, directory, name) ==
    LET n == Least({m \in InodeNums : fs[m].type = "Free"})
    IN  [inodeNum |-> n,
         inodes |-> [fs EXCEPT
                        ![n] = Inode("RegularFile", 0, <<>>),
                        ![directory].listing = Append(@, VNode(name, n))]]

\* Ext2Inode::Write: count bytes stored at offset; a file that ends before
\* offset + count is extended to it. The inode it leaves and the count it
\* reports.
InodeWrite(inode, count, offset) ==
    [inode |-> IF offset + count > inode.size0
               THEN [inode EXCEPT !.size0 = offset + count] ELSE inode,
     count |-> count]

\* RepositionOffset lines 57-78 on one descriptor: the new descriptor and
\* the volume. An offset beyond the end of the inode makes line 74 write
\* offset - size0 zero bytes at its end.
RepositionOffset(fileDescriptor, fs, inodeNum, offset, seekType) ==
    LET newOffset ==
            CASE seekType = "SeekSet" -> offset
              [] seekType = "SeekCursor" -> fileDescriptor.offset + offset
              [] seekType = "SeekEnd" -> fs[inodeNum].size0 + offset
    IN  [descriptor |-> [fileDescriptor EXCEPT !.offset = newOffset],
         inodes |-> IF newOffset > fs[inodeNum].size0
                    THEN [fs EXCEPT ![inodeNum] =
                             InodeWrite(@, newOffset - fs[inodeNum].size0,
                                        fs[inodeNum].size0).inode]
                    ELSE fs]

\* (mutant) Close that leaves the slot in use.
CloseKeepsPresent(fileDescriptor) == [fileDescriptor EXCEPT !.offset = 0]

\* Close lines 96-98.
CloseDescriptor(fileDescriptor) ==
    [fileDescriptor EXCEPT !.present = FALSE, !.offset = 0]

\* Open lines 110-118: the loop visits every slot, marks each free one
\* present and leaves in descriptorIndex the last one it marked (-1 when
\* there was none). Descriptors count from 0, sequences from 1.
FreeSlots(table) == {i \in 0..(Len(table) - 1) : ~table[i + 1].present}

ScanIndex(table) ==
    IF FreeSlots(table) = {} THEN -1 ELSE Greatest(FreeSlots(table))

ScanTable(table) ==
    [i \in 1..Len(table) |-> [table[i] EXCEPT !.present = TRUE]]

\* Open lines 107-150 on the table and the volume: the table and volume
\* it leaves, the descriptor it returns, and whether TraversePath halted
\* the kernel. The variable `inode` of line 132 keeps naming the inode
\* found by TraversePath after Create has replaced the vnode.
Open(table, fs, path, flags) ==
    LET scanned == ScanIndex(table)
        descriptorIndex == IF scanned = -1 THEN Len(table) ELSE scanned
        slots == IF scanned = -1
                 THEN Push(table, FileDescriptor(TRUE, 0, VNode("", 0)))
                 ELSE ScanTable(table)
        found == TraversePath(fs, path)
        inode == found.vNode.inodeNum
        create == "OCreate" \in flags /\ ~found.exists
        created == InodeCreate(fs, inode, found.finalPathToken)
        vNode == IF create THEN VNode(found.finalPathToken, created.inodeNum)
                 ELSE found.vNode
        fs1 == IF create THEN created.inodes ELSE fs
        fs2 == IF "OTruncate" \in flags /\ fs1[inode].type = "RegularFile"
               THEN [fs1 EXCEPT ![inode].size0 = 0] ELSE fs1
        opened == [slots[descriptorIndex + 1] EXCEPT !.vNode = vNode]
        appended == RepositionOffset(opened, fs2, inode, 0, "SeekEnd")
    IN  IF found.halted
        THEN [table |-> slots, inodes |-> fs, descriptor |-> descriptorIndex,
              halted |-> TRUE]
        ELSE [table |-> [slots EXCEPT ![descriptorIndex + 1] =
                            IF "OAppend" \in flags THEN appended.descriptor
                            ELSE opened],
              inodes |-> IF "OAppend" \in flags THEN appended.inodes ELSE fs2,
              descriptor |-> descriptorIndex,
              halted |-> FALSE]

\* (mutant) the three opens made on the directory /dev.
RECURSIVE OpenDev(_, _, _)
OpenDev(table, fs, n) ==
    IF n = 3 THEN [table |-> table, inodes |-> fs, ok |-> TRUE]
    ELSE LET o == Open(table, fs, <<"dev">>, {"ReadWrite"})
         IN  IF o.halted \/ o.descriptor # n
             THEN [table |-> o.table, inodes |-> o.inodes, ok |-> FALSE]
             ELSE OpenDev(o.table, o.inodes, n + 1)

\* The table CreateTaskFromELF builds in a new VFS (lines 287-292): three
\* opens of /dev/tty, each followed by an Assert on the descriptor.
RECURSIVE OpenTty(_, _, _)
OpenTty(table, fs, n) ==
    IF n = 3 THEN [table |-> table, inodes |-> fs, ok |-> TRUE]
    ELSE LET o == Open(table, fs, TtyPath, {"ReadWrite"})
         IN  IF o.halted \/ o.descriptor # n
             THEN [table |-> o.table, inodes |-> o.inodes, ok |-> FALSE]
             ELSE OpenTty(o.table, o.inodes, n + 1)

\* (mutant) the child handed the parent's VFS pointer.
SharedVFS(parentVfs, childPid) == parentVfs

\* ForkCurrentTask line 258: the child's VFS is a new object.
ChildVFS(parentVfs, childPid) == childPid

\* The copy constructor VFS(const VFS&): the new object's table is a copy
\* of the whole table; the copies point at the same vnodes.
CopyTable(table) == table

\* ------------------------------------------------------------ DeviceFS
FileSystems == {"DeviceFS", "Ext2"}

\* A VFS::Vnode object; address is the identity of the object, 0 the null
\* pointer.
Vnode(address, inodeNum, fileSystem, type, context) ==
    [address |-> address, inodeNum |-> inodeNum, fileSystem |-> fileSystem,
     type |-> type, context |-> context, fileSize |-> 0]

NullVnode == Vnode(0, 0, "none", "none", "none")

\* new (Allocator::Permanent) VFS::Vnode(): an object no other vnode shares.
NewAddress(cache) == Len(cache) + 1

\* The process-wide cache keyed by (filesystem, inode number).
CacheVNode(cache, vnode) == Append(cache, vnode)

SearchInCache(cache, inodeNum, fileSystem) ==
    LET hits == {i \in 1..Len(cache) :
                    /\ cache[i].inodeNum = inodeNum
                    /\ cache[i].fileSystem = fileSystem}
    IN  IF hits = {} THEN NullVnode ELSE cache[Least(hits)]

\* currentInodeNum when DeviceFS is constructed. The lookups do not depend
\* on it; with 1 the terminal shares its number with the Ext2 root.
FirstDeviceInode == 1

\* DeviceFS::DeviceFS: the root vnode and the terminal are created, numbered
\* from currentInodeNum and cached; the terminal is the one device pushed.
DeviceFSConstructor(cache) ==
    LET fileSystemRoot == Vnode(NewAddress(cache), FirstDeviceInode,
                                "DeviceFS", "Directory", "none")
        rootCached == CacheVNode(cache, fileSystemRoot)
        terminal == [name |-> "tty", inodeNum |-> FirstDeviceInode + 1]
        terminalVnode == Vnode(NewAddress(rootCached), terminal.inodeNum,
                               "DeviceFS", "CharacterDevice", terminal.name)
    IN  [fileSystemRoot |-> fileSystemRoot,
         devices |-> <<terminal>>,
         currentInodeNum |-> FirstDeviceInode + 2,
         cache |-> CacheVNode(rootCached, terminalVnode)]

DeviceFS == DeviceFSConstructor(<<>>)

\* The names looked up: the terminal's, another device's, the empty name.
DeviceNames == {"tty", "null", ""}

\* The directories handed to the lookup: the root and the terminal's vnode.
DeviceDirectories == {DeviceFS.cache[i] : i \in 1..Len(DeviceFS.cache)}

\* A lookup that answers with the first device whatever the name.
FindFirstDevice(cache, directory, name) ==
    LET file == SearchInCache(cache, DeviceFS.devices[1].inodeNum, "DeviceFS")
    IN  [vnode |-> file, halted |-> file = NullVnode]

\* FindInDirectory lines 47-61: the for loop over devices from index i.
RECURSIVE FindLoop(_, _, _)
FindLoop(cache, name, i) ==
    IF i > Len(DeviceFS.devices)
    THEN [vnode |-> NullVnode, halted |-> FALSE]
    ELSE IF DeviceFS.devices[i].name = name
         THEN LET file == SearchInCache(cache, DeviceFS.devices[i].inodeNum,
                                        "DeviceFS")
              IN  [vnode |-> file, halted |-> file = NullVnode]
         ELSE FindLoop(cache, name, i + 1)

\* DeviceFS::FindInDirectory; halted when one of its Asserts fails.
FindInDirectory(cache, directory, name) ==
    IF directory # DeviceFS.fileSystemRoot
    THEN [vnode |-> NullVnode, halted |-> TRUE]
    ELSE FindLoop(cache, name, 1)

Init ==
    /\ taskQueue = <<>>
    /\ nextPid = 1
    /\ currentTask = [c \in CPUs |-> IdleTask]
    /\ restoreFrame = [c \in CPUs |-> InitialRestoreFrame]
    /\ timerEntries = [c \in CPUs |-> <<>>]
    /\ currentTimerTime = [c \in CPUs |-> TimeSlice]
    /\ cpu = [c \in CPUs |-> IdleTask.frame]
    /\ panic = "none"
    /\ lastOp = Op("Init", BSP, 0, 0)
    /\ fileDescriptors = [v \in VFSObjects |-> <<>>]
    /\ inodes = Ext2Image
    /\ vnodeCache = DeviceFS.cache

\* ------------------------------------------------- queue operations
\* GetTask: index of the first queued task with this PID, 0 when the loop
\* falls through to Panic().
GetTask(q, pid) ==
    IF \E i \in 1..Len(q) : q[i].pid = pid
    THEN CHOOSE i \in 1..Len(q) :
             q[i].pid = pid /\ \A j \in 1..(i - 1) : q[j].pid # pid
    ELSE 0

Unsuspend(q, pid, returnValue) ==
    LET i == GetTask(q, pid) IN
    IF i = 0 THEN [queue |-> q, panic |-> "GetTask"]
    ELSE IF q[i].state \notin {"Blocked", "WaitingForChild"}
         THEN [queue |-> q, panic |-> "UnsuspendState"]
    ELSE [queue |-> [q EXCEPT ![i].frame.rax = returnValue,
                              ![i].state = "Normal"],
          panic |-> "none"]

\* (mutant) Unblock delivering a value of 0, as Unsuspend(pid, 0) would.
UnblockClearsRax(q, pid) == Unsuspend(q, pid, 0)

Unblock(q, pid) ==
    LET i == GetTask(q, pid) IN
    IF i = 0 THEN [queue |-> q, panic |-> "GetTask"]
    ELSE IF q[i].state # "Blocked" THEN [queue |-> q, panic |-> "UnblockState"]
    ELSE [queue |-> [q EXCEPT ![i].state = "Normal"], panic |-> "none"]

\* ------------------------------------------------------------ timers
TimerEntry(ms, unblockOnExpire, pid) ==
    [milliseconds |-> ms, unblockOnExpire |-> unblockOnExpire, pid |-> pid]

RECURSIVE ClosestTime(_, _, _)
ClosestTime(entries, i, closestTime) ==
    IF i > Len(entries) THEN closestTime
    ELSE ClosestTime(entries, i + 1,
                     IF entries[i].milliseconds < closestTime
                     THEN entries[i].milliseconds ELSE closestTime)

\* (mutant) the timer always armed with the full time slice.
ConfigureTimerTimeSlice(entries) == TimeSlice

ConfigureTimerClosestExpiry(entries) == ClosestTime(entries, 1, TimeSlice)

\* (mutant) the loop without the decrement of line 144.
RECURSIVE TimerLoopKeepsTime(_, _, _, _)
TimerLoopKeepsTime(entries, q, i, deltaTime) ==
    IF i = 0 THEN [entries |-> entries, queue |-> q, panic |-> "none"]
    ELSE IF entries[i].milliseconds <= deltaTime
    THEN IF entries[i].unblockOnExpire
         THEN IF entries[i].pid = 0
              THEN [entries |-> entries, queue |-> q, panic |-> "TimerPid"]
              ELSE LET u == Unblock(q, entries[i].pid) IN
                   IF u.panic # "none"
                   THEN [entries |-> entries, queue |-> q, panic |-> u.panic]
                   ELSE TimerLoopKeepsTime(Pop(entries, i), u.queue, i - 1,
                                           deltaTime)
         ELSE TimerLoopKeepsTime(Pop(entries, i), q, i - 1, deltaTime)
    ELSE TimerLoopKeepsTime(entries, q, i - 1, deltaTime)

\* The loop of UpdateTimerEntries, from the last entry down to the first.
RECURSIVE TimerLoop(_, _, _, _)
TimerLoop(entries, q, i, deltaTime) ==
    IF i = 0 THEN [entries |-> entries, queue |-> q, panic |-> "none"]
    ELSE IF entries[i].milliseconds <= deltaTime
    THEN IF entries[i].unblockOnExpire
         THEN IF entries[i].pid = 0
              THEN [entries |-> entries, queue |-> q, panic |-> "TimerPid"]
              ELSE LET u == Unblock(q, entries[i].pid) IN
                   IF u.panic # "none"
                   THEN [entries |-> entries, queue |-> q, panic |-> u.panic]
                   ELSE TimerLoop(Pop(entries, i), u.queue, i - 1, deltaTime)
         ELSE TimerLoop(Pop(entries, i), q, i - 1, deltaTime)
    ELSE TimerLoop([entries EXCEPT ![i].milliseconds = @ - deltaTime],
                   q, i - 1, deltaTime)

UpdateTimerEntries(entries, q, timerTime, remainingTime) ==
    IF ~(timerTime > remainingTime)
    THEN [entries |-> entries, queue |-> q, panic |-> "TimerElapsed"]
    ELSE TimerLoop(entries, q, Len(entries), timerTime - remainingTime)

\* --------------------------------------------------------- selection
\* The for loop of SwitchToNextTask: index i runs over a queue that shrinks
\* under it, and the loop does not stop at the first Normal task.
\* (mutant) Get(i) where the code calls Pop(i): the selected task stays queued.
RECURSIVE SelectLoopKeep(_, _, _, _)
SelectLoopKeep(q, i, current, foundNewTask) ==
    IF i > Len(q)
    THEN [queue |-> q, current |-> current, found |-> foundNewTask]
    ELSE IF q[i].state = "Normal"
    THEN SelectLoopKeep(q, i + 1, q[i], TRUE)
    ELSE SelectLoopKeep(q, i + 1, current, foundNewTask)

\* (mutant) the loop without the test of the state: every entry it visits
\* is popped.
RECURSIVE SelectLoopAnyState(_, _, _, _)
SelectLoopAnyState(q, i, current, foundNewTask) ==
    IF i > Len(q)
    THEN [queue |-> q, current |-> current, found |-> foundNewTask]
    ELSE SelectLoopAnyState(Pop(q, i), i + 1, q[i], TRUE)

RECURSIVE SelectLoop(_, _, _, _)
SelectLoop(q, i, current, foundNewTask) ==
    IF i > Len(q)
    THEN [queue |-> q, current |-> current, found |-> foundNewTask]
    ELSE IF q[i].state = "Normal"
    THEN SelectLoop(Pop(q, i), i + 1, q[i], TRUE)
    ELSE SelectLoop(q, i + 1, current, foundNewTask)

\* (mutant) the running task saved and queued whatever restoreFrame says.
SaveCurrentAlways(q, task, frame, restore) ==
    Push(q, [task EXCEPT !.frame = frame])

\* Lines 63-68: the running task is saved and queued when restoreFrame.
SaveCurrent(q, task, frame, restore) ==
    IF restore THEN Push(q, [task EXCEPT !.frame = frame]) ELSE q

\* Lines 82-86: what runs next.
NextTask(sel) == IF sel.found THEN sel.current ELSE IdleTask

\* (mutant) line 84 left out: restoreFrame stays true when idle is chosen.
RestoreFrameStays(foundNewTask) == TRUE

\* restoreFrame after the switch: true after lines 63-68, false again
\* (line 84) when no task was found.
RestoreFrameAfter(foundNewTask) == foundNewTask

Halt(reason, op) ==
    /\ panic' = reason
    /\ lastOp' = op
    /\ UNCHANGED <<taskQueue, currentTask, restoreFrame, timerEntries,
                   currentTimerTime, cpu>>

\* SwitchToNextTask on core c: remainingTime is what the LAPIC reports,
\* frame the interrupt frame, restore the value of restoreFrame on entry.
SwitchToNextTask(c, remainingTime, frame, restore, op) ==
    LET t == UpdateTimerEntries(timerEntries[c], taskQueue,
                                currentTimerTime[c], remainingTime)
        saved == SaveCurrent(t.queue, currentTask[c], frame, restore)
        sel == SelectLoop(saved, 1, currentTask[c], FALSE)
    IN  IF t.panic # "none" THEN Halt(t.panic, op)
        ELSE /\ taskQueue' = sel.queue
             /\ currentTask' = [currentTask EXCEPT ![c] = NextTask(sel)]
             /\ restoreFrame' =
                    [restoreFrame EXCEPT ![c] = RestoreFrameAfter(sel.found)]
             /\ timerEntries' = [timerEntries EXCEPT ![c] = t.entries]
             /\ currentTimerTime' =
                    [currentTimerTime EXCEPT
                        ![c] = ConfigureTimerClosestExpiry(t.entries)]
             /\ cpu' = [cpu EXCEPT ![c] = NextTask(sel).frame]
             /\ panic' = panic
             /\ lastOp' = op

\* ------------------------------------------------------------ actions
Running(c) == cpu[c].rip \in {"user", "idle"}   \* interrupts are enabled
InUser(c) == cpu[c].rip = "user" /\ currentTask[c].pid # 0

\* What GetTimeRemainingMilliseconds can report inside a system call: any
\* count the one-shot timer can hold since it was armed. Readings further
\* behind the armed time than the longest pending entry expire every entry
\* alike, so of those only the reading 0 is drawn.
LongestEntry(entries) ==
    IF entries = <<>> THEN 0
    ELSE CHOOSE m \in {entries[i].milliseconds : i \in 1..Len(entries)} :
             \A i \in 1..Len(entries) : entries[i].milliseconds <= m

TimeRemaining(c) ==
    {r \in 0..currentTimerTime[c] :
        r = 0 \/ currentTimerTime[c] - r <= LongestEntry(timerEntries[c])}

\* ISRHandler case 48: the one-shot timer has counted down to 0.
LAPICTimerInterrupt(c) ==
    /\ panic = "none"
    /\ Running(c)
    /\ SwitchToNextTask(c, 0, cpu[c], restoreFrame[c],
                        Op("Timer", c, currentTask[c].pid, 0))
    /\ UNCHANGED <<nextPid, fileDescriptors, inodes, vnodeCache>>

\* SuspendSystemCall up to the int 0x81 instruction.
SuspendSystemCall(c, newTaskState) ==
    /\ panic = "none"
    /\ InUser(c)
    /\ IF currentTask[c].state # "Normal"
       THEN Halt("SuspendState", Op("Suspend", c, currentTask[c].pid, 0))
       ELSE /\ currentTask' = [currentTask EXCEPT ![c].state = newTaskState]
            /\ cpu' = [cpu EXCEPT ![c].rip = "int81"]
            /\ lastOp' = Op("Suspend", c, currentTask[c].pid, 0)
            /\ UNCHANGED <<taskQueue, restoreFrame, timerEntries,
                           currentTimerTime, panic>>
    /\ UNCHANGED <<nextPid, fileDescriptors, inodes, vnodeCache>>

\* ISRHandler case 0x81. rax is an output of the asm statement only, so the
\* frame holds whatever the register held.
Int81At(c, remainingTime, rax) ==
    /\ panic = "none"
    /\ cpu[c].rip = "int81"
    /\ SwitchToNextTask(c, remainingTime, Frame(rax, "resumed"),
                        restoreFrame[c],
                        Op("Int81", c, currentTask[c].pid, 0))
    /\ UNCHANGED <<nextPid, fileDescriptors, inodes, vnodeCache>>

Int81(c) ==
    \E remainingTime \in TimeRemaining(c), rax \in RaxValues :
        Int81At(c, remainingTime, rax)

\* SuspendSystemCall after iretq: the second assertion and the return of
\* rax (lastOp.val). The system call then returns to user code, whose
\* registers are not modelled: a frame taken in user code has rax = 0.
SuspendReturn(c) ==
    /\ panic = "none"
    /\ cpu[c].rip = "resumed"
    /\ IF currentTask[c].state # "Normal"
       THEN Halt("ResumeState", Op("SuspendReturn", c, currentTask[c].pid, 0))
       ELSE /\ cpu' = [cpu EXCEPT ![c] = Frame(0, "user")]
            /\ lastOp' = Op("SuspendReturn", c, currentTask[c].pid, cpu[c].rax)
            /\ UNCHANGED <<taskQueue, currentTask, restoreFrame, timerEntries,
                           currentTimerTime, panic>>
    /\ UNCHANGED <<nextPid, fileDescriptors, inodes, vnodeCache>>

SleepCurrentTask(c, milliseconds) ==
    /\ panic = "none"
    /\ InUser(c)
    /\ timerEntries' = [timerEntries EXCEPT
           ![c] = Push(@, TimerEntry(milliseconds, TRUE, currentTask[c].pid))]
    /\ currentTask' = [currentTask EXCEPT ![c].state = "Blocked"]
    /\ cpu' = [cpu EXCEPT ![c].rip = "int81"]
    /\ lastOp' = Op("Sleep", c, currentTask[c].pid, milliseconds)
    /\ UNCHANGED <<taskQueue, restoreFrame, currentTimerTime, panic,
                   nextPid, fileDescriptors, inodes, vnodeCache>>

ExitCurrentTask(c) ==
    /\ panic = "none"
    /\ InUser(c)
    /\ \E remainingTime \in TimeRemaining(c) :
           SwitchToNextTask(c, remainingTime, cpu[c], FALSE,
                            Op("Exit", c, currentTask[c].pid, 0))
    /\ UNCHANGED <<nextPid, fileDescriptors, inodes, vnodeCache>>

\* (mutant) the PID counter read but not advanced.
PidCounterKept(pid) == pid

\* CreateTask lines 44-45: __atomic_fetch_add hands out the counter's value
\* and advances the counter in one indivisible step.
PidCounterAfter(pid) == pid + 1

\* (mutant) line 263 left out: the child keeps the parent's rax.
ChildFrameKeepsRax(frame) == frame

\* Lines 262-263: the child's frame is the parent's system-call frame with
\* rax = 0.
ChildFrame(frame) == [frame EXCEPT !.rax = 0]

\* On entry rax of the system-call frame holds the system call's number
\* (InterruptHandlers.cpp:50), drawn from RaxValues. The value returned to
\* the parent, child.pid, is lastOp.val.
ForkCurrentTask(c) ==
    /\ panic = "none"
    /\ InUser(c)
    /\ nextPid <= MaxPid
    /\ \E rax \in RaxValues :
           taskQueue' = Push(taskQueue,
               [CreateTask(nextPid, "user") EXCEPT
                   !.frame = ChildFrame([cpu[c] EXCEPT !.rax = rax]),
                   !.syscallStackAddr = currentTask[c].syscallStackAddr,
                   !.vfs = ChildVFS(currentTask[c].vfs, nextPid)])
    /\ fileDescriptors' = [fileDescriptors EXCEPT
           ![nextPid] = CopyTable(fileDescriptors[currentTask[c].vfs])]
    /\ nextPid' = PidCounterAfter(nextPid)
    /\ lastOp' = Op("Fork", c, currentTask[c].pid, nextPid)
    /\ UNCHANGED <<currentTask, restoreFrame, timerEntries, currentTimerTime,
                   cpu, panic, inodes, vnodeCache>>

CreateTaskFromELF(c) ==
    /\ panic = "none"
    /\ Running(c)
    /\ nextPid <= MaxPid
    /\ LET tty == OpenTty(fileDescriptors[nextPid], inodes, 0)
       IN  /\ fileDescriptors' = [fileDescriptors EXCEPT ![nextPid] = tty.table]
           /\ inodes' = tty.inodes
           /\ vnodeCache' = vnodeCache
           /\ panic' = IF tty.ok THEN panic ELSE "Assert"
           /\ taskQueue' = IF tty.ok
                           THEN Push(taskQueue, CreateTask(nextPid, "user"))
                           ELSE taskQueue
    /\ nextPid' = PidCounterAfter(nextPid)
    /\ lastOp' = Op("Exec", c, nextPid, 0)
    /\ UNCHANGED <<currentTask, restoreFrame, timerEntries, currentTimerTime,
                   cpu>>

\* A wake-up is issued for a task that has suspended itself and that no
\* timer entry is going to unblock.
HasTimer(pid) ==
    \E c \in CPUs : \E i \in 1..Len(timerEntries[c]) :
        timerEntries[c][i].pid = pid

Suspended(pid) ==
    /\ ~HasTimer(pid)
    /\ \/ \E i \in 1..Len(taskQueue) :
              taskQueue[i].pid = pid /\ taskQueue[i].state # "Normal"
       \/ \E c \in CPUs :
              currentTask[c].pid = pid /\ currentTask[c].state # "Normal"

UnblockTask(c, pid) ==
    /\ panic = "none"
    /\ Running(c)
    /\ Suspended(pid)
    /\ LET u == Unblock(taskQueue, pid) IN
       IF u.panic # "none"
       THEN Halt(u.panic, Op("Unblock", c, pid, 0))
       ELSE /\ taskQueue' = u.queue
            /\ lastOp' = Op("Unblock", c, pid, 0)
            /\ UNCHANGED <<currentTask, restoreFrame, timerEntries,
                           currentTimerTime, cpu, panic>>
    /\ UNCHANGED <<nextPid, fileDescriptors, inodes, vnodeCache>>

UnsuspendTask(c, pid, returnValue) ==
    /\ panic = "none"
    /\ Running(c)
    /\ Suspended(pid)
    /\ LET u == Unsuspend(taskQueue, pid, returnValue) IN
       IF u.panic # "none"
       THEN Halt(u.panic, Op("Unsuspend", c, pid, returnValue))
       ELSE /\ taskQueue' = u.queue
            /\ lastOp' = Op("Unsuspend", c, pid, returnValue)
            /\ UNCHANGED <<currentTask, restoreFrame, timerEntries,
                           currentTimerTime, cpu, panic>>
    /\ UNCHANGED <<nextPid, fileDescriptors, inodes, vnodeCache>>

\* ----------------------------------------------------------- ELF loader
\* An ELF file: the header's type and entry, and its program headers.
ELFImage(type, entry, programHeaders) ==
    [type |-> type, entry |-> entry, programHeaders |-> programHeaders]

NoImage == ELFImage("None", 0, <<>>)

\* The virtual address of the images' ProgramHeaderTable segment.
PhdrAddr == 64

\* sizeof(ProgramHeader), which programHeaderTableEntrySize must equal.
ProgramHeaderEntrySize == 56

\* A program header; rtdl is the file its interpreter path names. Of the
\* virtual addresses LoadELF itself reads the ProgramHeaderTable's only.
ProgramHeader(type, rtdl) ==
    [type |-> type, rtdl |-> rtdl,
     virtAddr |-> IF type = "ProgramHeaderTable" THEN PhdrAddr ELSE 0]

ELFEntries == 1..MaxEntry

\* The files an Interpreter segment names: images of either type with one
\* Load segment.
Interpreters ==
    {ELFImage(type, entry, <<ProgramHeader("Load", NoImage)>>) :
        type \in {"Executable", "Shared"}, entry \in ELFEntries}

ProgramHeaders ==
    {ProgramHeader("Load", NoImage),
     ProgramHeader("ProgramHeaderTable", NoImage)}
    \cup {ProgramHeader("Interpreter", rtdl) : rtdl \in Interpreters}

InterpreterHeaders(programHeaders) ==
    {i \in 1..Len(programHeaders) : programHeaders[i].type = "Interpreter"}

\* Program header tables in every order, with at most one Interpreter.
ProgramHeaderTables ==
    {t \in UNION {[1..n -> ProgramHeaders] : n \in 0..MaxHeaders} :
        Cardinality(InterpreterHeaders(t)) <= 1}

\* The files handed to the loader; a Relocatable file fails the Assert on
\* the type.
ELFImages ==
    {ELFImage(type, entry, t) :
        type \in {"Executable", "Shared"}, entry \in ELFEntries,
        t \in ProgramHeaderTables}
    \cup {ELFImage("Relocatable", entry, <<>>) : entry \in ELFEntries}

\* What the caller's uninitialised uintptr_t entry may hold.
UninitialisedEntries == {0, RTDL_ADDR}

\* A loader that returns the header's entry for every Executable image.
LoadELFOwnEntry(image, entry) ==
    IF image.type \notin {"Executable", "Shared"}
    THEN [entry |-> entry, halted |-> TRUE]
    ELSE IF image.type = "Shared"
         THEN [entry |-> RTDL_ADDR + image.entry, halted |-> FALSE]
         ELSE [entry |-> image.entry, halted |-> FALSE]

RECURSIVE LoadELF(_, _)
RECURSIVE ProgramHeaderLoop(_, _, _, _)

\* LoadELF lines 42-75: the for loop over the program headers from index
\* i. An Interpreter segment loads the named file with the same entry
\* reference and sets hasDynamicLinking.
ProgramHeaderLoop(image, i, entry, hasDynamicLinking) ==
    IF i > Len(image.programHeaders)
    THEN [entry |-> entry, hasDynamicLinking |-> hasDynamicLinking,
          halted |-> FALSE]
    ELSE IF image.programHeaders[i].type = "Interpreter"
         THEN LET rtdl == LoadELF(image.programHeaders[i].rtdl, entry)
              IN  IF rtdl.halted
                  THEN [entry |-> rtdl.entry, hasDynamicLinking |-> TRUE,
                        halted |-> TRUE]
                  ELSE ProgramHeaderLoop(image, i + 1, rtdl.entry, TRUE)
         ELSE ProgramHeaderLoop(image, i + 1, entry, hasDynamicLinking)

\* ELFLoader::LoadELF: the value left in entry. Lines 77-80 for a Shared
\* image, lines 81-126 for an Executable one.
LoadELF(image, entry) ==
    IF image.type \notin {"Executable", "Shared"}
    THEN [entry |-> entry, halted |-> TRUE]
    ELSE LET loop == ProgramHeaderLoop(image, 1, entry, FALSE)
         IN  IF loop.halted
             THEN [entry |-> loop.entry, halted |-> TRUE]
             ELSE IF image.type = "Shared"
                  THEN [entry |-> RTDL_ADDR + image.entry, halted |-> FALSE]
                  ELSE IF loop.hasDynamicLinking
                       THEN [entry |-> loop.entry, halted |-> FALSE]
                       ELSE [entry |-> image.entry, halted |-> FALSE]

\* A Load segment: its virtual address and its sizes in the file and in
\* memory; bytesInFile is what the file holds from the segment's offset on.
LoadSegment(virtAddr, segmentSizeInFile, segmentSizeInMemory, bytesInFile) ==
    [virtAddr |-> virtAddr, segmentSizeInFile |-> segmentSizeInFile,
     segmentSizeInMemory |-> segmentSizeInMemory,
     bytesInFile |-> bytesInFile]

\* Addresses at the start, in the middle and near the end of a page.
SegmentAddrs == {0, PageSize, PageSize \div 2, 2 * PageSize - 256}

\* Sizes of one byte, of half pages and of whole pages.
SegmentSizes ==
    {1, PageSize \div 2, PageSize, PageSize + PageSize \div 2,
     2 * PageSize, 3 * PageSize}

\* Every segment with segmentSizeInFile <= segmentSizeInMemory, in a file
\* that ends with the segment or goes on for a page more.
LoadSegments ==
    UNION {{LoadSegment(virtAddr, inFile, inMemory, inFile + tail) :
               virtAddr \in SegmentAddrs,
               inFile \in {n \in SegmentSizes \cup {0} : n <= inMemory},
               tail \in {0, PageSize}} :
           inMemory \in SegmentSizes}

\* VFS::Read on the ELF file at fileReadCount bytes past the segment's
\* offset: the bytes it transfers.
FileRead(programHeader, fileReadCount, readCount) ==
    IF fileReadCount + readCount <= programHeader.bytesInFile
    THEN readCount
    ELSE programHeader.bytesInFile - fileReadCount

\* LoadProgramHeader lines 147-166: the for loop from index page. Each
\* iteration maps and zeroes one page and reads readCount bytes of the file
\* to the page's frame at the segment's in-page offset; the record keeps
\* the page mapped, the virtual address the first byte read stands for,
\* how far into the frame it is stored, where in the segment it comes
\* from and how many bytes were read.
RECURSIVE LoadPages(_, _, _, _, _)
LoadPages(programHeader, baseAddr, page, fileReadCount, pages) ==
    IF page >= (programHeader.segmentSizeInMemory - 1) \div PageSize + 1
    THEN pages
    ELSE LET virtAddr == baseAddr + page * PageSize
             pageAddr == virtAddr - (virtAddr % PageSize)
             readCount ==
                 IF fileReadCount + PageSize > programHeader.segmentSizeInFile
                 THEN programHeader.segmentSizeInFile % PageSize
                 ELSE PageSize
             read == FileRead(programHeader, fileReadCount, readCount)
         IN  LoadPages(programHeader, baseAddr, page + 1,
                       fileReadCount + read,
                       Append(pages,
                              [pageAddr |-> pageAddr,
                               frameOffset |-> baseAddr % PageSize,
                               fileOffset |-> fileReadCount,
                               readCount |-> read]))

\* ELFLoader::LoadProgramHeader: the pages it maps and what it copies into
\* each.
LoadProgramHeader(programHeader, type) ==
    LoadPages(programHeader,
              IF type = "Shared" THEN programHeader.virtAddr + RTDL_ADDR
              ELSE programHeader.virtAddr,
              0, 0, <<>>)

\* The loader reaches a Load segment of the file it is loading.
LoadProgramHeaderCall(c, programHeader, type) ==
    /\ panic = "none"
    /\ Running(c)
    /\ lastOp' = Op("LoadProgramHeader", c, currentTask[c].pid,
                    [programHeader |-> programHeader, type |-> type,
                     pages |-> LoadProgramHeader(programHeader, type)])
    /\ UNCHANGED <<taskQueue, nextPid, currentTask, restoreFrame,
                   timerEntries, currentTimerTime, cpu, panic,
                   fileDescriptors, inodes, vnodeCache>>

\* A 64-bit address as two limbs of 24 bits, hi * 2^24 + lo.
Limb == 16777216

Addr(hi, lo) == [hi |-> hi, lo |-> lo]

\* a - n for 0 <= n < 2^24.
AddrSub(a, n) ==
    IF a.lo >= n THEN Addr(a.hi, a.lo - n)
    ELSE Addr(a.hi - 1, a.lo + Limb - n)

\* constexpr uintptr_t USER_STACK_BASE = 0x0000'8000'0000'0000 - 0x1000
USER_STACK_BASE == AddrSub(Addr(8388608, 0), PageSize)

\* What the caller's uninitialised uintptr_t stackPtr may hold.
UninitialisedStackPtrs == {Addr(0, 0), USER_STACK_BASE}

\* The last ProgramHeaderTable segment's virtual address, 0 without one.
ProgramHeaderTableAddr(programHeaders) ==
    LET hits == {i \in 1..Len(programHeaders) :
                    programHeaders[i].type = "ProgramHeaderTable"}
    IN  IF hits = {} THEN 0 ELSE programHeaders[Greatest(hits)].virtAddr

\* (mutant) the frame without the environment's terminator.
PushedWordsNoEnvironment(image) ==
    <<0, 0, ProgramHeaderTableAddr(image.programHeaders), 3,
      ProgramHeaderEntrySize, 4, Len(image.programHeaders), 5,
      image.entry, 9, 0, 0>>

\* Lines 100-118: the words stored with *--stackHigherHalf, in the order
\* they are stored, the first one just below the top of the stack.
PushedWords(image) ==
    <<0, 0, ProgramHeaderTableAddr(image.programHeaders), 3,
      ProgramHeaderEntrySize, 4, Len(image.programHeaders), 5,
      image.entry, 9, 0, 0, 0>>

RECURSIVE LoadStack(_, _)
RECURSIVE StackLoop(_, _, _)

\* The Interpreter segments of the for loop, from index i: each loads the
\* named file with the same stackPtr reference.
StackLoop(image, i, stack) ==
    IF i > Len(image.programHeaders) THEN stack
    ELSE IF image.programHeaders[i].type = "Interpreter"
         THEN StackLoop(image, i + 1,
                        LoadStack(image.programHeaders[i].rtdl, stack))
         ELSE StackLoop(image, i + 1, stack)

\* LoadELF lines 81-126: what it leaves in stackPtr and on the stack it
\* maps for an Executable image; pushed[k] is the word 8 * k bytes below
\* USER_STACK_BASE, written tells that line 126 has assigned stackPtr. A
\* Shared image leaves all of it as the loop left it.
LoadStack(image, stack) ==
    LET nested == StackLoop(image, 1, stack)
        pushed == IF ProgramHeaderLoop(image, 1, 0, FALSE).hasDynamicLinking
                  THEN PushedWords(image) ELSE <<>>
    IN  IF image.type = "Executable"
        THEN [stackPtr |-> AddrSub(USER_STACK_BASE, 8 * Len(pushed)),
              pushed |-> pushed, written |-> TRUE]
        ELSE nested

\* The caller's stackPtr and stack before the call.
NoStack == [stackPtr |-> Addr(0, 0), pushed |-> <<>>, written |-> FALSE]

\* The kernel loads a file for a new task: entry and stackPtr are the
\* caller's locals, not initialised before the call; stackPtr keeps what it
\* held where no load assigns it.
LoadELFCall(c, image, entry) ==
    /\ panic = "none"
    /\ Running(c)
    /\ LET loaded == LoadELF(image, entry)
           stack == LoadStack(image, NoStack)
       IN  /\ panic' = IF loaded.halted THEN "Assert" ELSE panic
           /\ \E stackPtr \in IF stack.written THEN {stack.stackPtr}
                               ELSE UninitialisedStackPtrs :
                  lastOp' = Op("LoadELF", c, currentTask[c].pid,
                               [image |-> image, entry |-> loaded.entry,
                                stackPtr |-> stackPtr,
                                stack |-> stack.pushed])
    /\ UNCHANGED <<taskQueue, nextPid, currentTask, restoreFrame,
                   timerEntries, currentTimerTime, cpu, fileDescriptors,
                   inodes, vnodeCache>>

\* ------------------------------------------------------ device lookups
\* The running task's path traversal asks DeviceFS for a name.
FindInDirectoryCall(c, directory, name) ==
    /\ panic = "none"
    /\ InUser(c)
    /\ LET found == FindInDirectory(vnodeCache, directory, name)
       IN  /\ panic' = IF found.halted THEN "Assert" ELSE panic
           /\ lastOp' = Op("FindInDirectory", c, currentTask[c].pid,
                           found.vnode.address)
    /\ UNCHANGED <<taskQueue, nextPid, currentTask, restoreFrame,
                   timerEntries, currentTimerTime, cpu, fileDescriptors,
                   inodes, vnodeCache>>

\* The running task's path traversal meets an Ext2 file that has no vnode
\* yet: a vnode is created for it and cached.
Ext2CacheVNode(c, inodeNum) ==
    /\ panic = "none"
    /\ InUser(c)
    /\ Len(vnodeCache) < MaxCache
    /\ SearchInCache(vnodeCache, inodeNum, "Ext2") = NullVnode
    /\ vnodeCache' = CacheVNode(vnodeCache,
                                Vnode(NewAddress(vnodeCache), inodeNum, "Ext2",
                                      "RegularFile", "none"))
    /\ lastOp' = Op("CacheVNode", c, currentTask[c].pid, inodeNum)
    /\ UNCHANGED <<taskQueue, nextPid, currentTask, restoreFrame,
                   timerEntries, currentTimerTime, cpu, panic,
                   fileDescriptors, inodes>>

\* ---------------------------------------------------------- exceptions
\* The vectors drawn: divide error, general protection, page fault.
ExceptionVectors == {0, 13, 14}

\* ISRHandler case 0 ... 31 while a user task runs: ExceptionHandler logs
\* the frame and calls Panic(), which does not return.
ExceptionHandler(c, interruptNumber) ==
    /\ panic = "none"
    /\ InUser(c)
    /\ Halt("Exception", Op("Exception", c, currentTask[c].pid,
                            interruptNumber))
    /\ UNCHANGED <<nextPid, fileDescriptors, inodes, vnodeCache>>

\* ------------------------------------------------- system-call return
\* Error::None and the other kinds of the enum, as the integers the
\* handler casts them to.
ErrorNone == 0
Errors == 1..MaxError

\* (mutant) lines 54-57 left out: rax keeps what the call returned.
RaxKeepsResult(result, error) == result

\* SystemCallHandler lines 50-57: what is left in interruptFrame->rax, read
\* as a signed 64-bit integer.
SystemCallReturn(result, error) ==
    IF error # ErrorNone THEN -error ELSE result

\* int 0x80 from user code: SystemCall returns `result` and leaves `error`
\* in the handler's local.
SystemCallHandler(c, result, error) ==
    /\ panic = "none"
    /\ InUser(c)
    /\ cpu' = [cpu EXCEPT ![c].rax = SystemCallReturn(result, error)]
    /\ lastOp' = Op("SystemCall", c, currentTask[c].pid,
                    [result |-> result, error |-> error])
    /\ UNCHANGED <<taskQueue, nextPid, currentTask, restoreFrame,
                   timerEntries, currentTimerTime, panic, fileDescriptors,
                   inodes, vnodeCache>>

\* ---------------------------------------------- descriptor system calls
\* The system calls of the running user task, each applied to the table of
\* currentTask.vfs. lastOp.val records the value the call returns (for
\* Close, which returns nothing, its argument).
Close(table, descriptor) ==
    [table EXCEPT ![descriptor + 1] = CloseDescriptor(@)]

\* Read lines 155-161: the table, the volume and readCount.
Read(table, fs, descriptor, count) ==
    LET fileDescriptor == table[descriptor + 1]
        inodeNum == fileDescriptor.vNode.inodeNum
        readCount == InodeRead(fs[inodeNum], count, fileDescriptor.offset)
        moved == RepositionOffset(fileDescriptor, fs, inodeNum, readCount,
                                  "SeekCursor")
    IN  [table |-> [table EXCEPT ![descriptor + 1] = moved.descriptor],
         inodes |-> moved.inodes, count |-> readCount]

\* (mutant) Write that reports the count and leaves the offset where it was.
WriteKeepsOffset(table, fs, descriptor, count) ==
    LET inodeNum == table[descriptor + 1].vNode.inodeNum
        wrote == InodeWrite(fs[inodeNum], count, table[descriptor + 1].offset)
    IN  [table |-> table, inodes |-> [fs EXCEPT ![inodeNum] = wrote.inode],
         count |-> wrote.count]

\* Write lines 166-172: the table, the volume and wroteCount.
Write(table, fs, descriptor, count) ==
    LET fileDescriptor == table[descriptor + 1]
        inodeNum == fileDescriptor.vNode.inodeNum
        wrote == InodeWrite(fs[inodeNum], count, fileDescriptor.offset)
        moved == RepositionOffset(fileDescriptor,
                                  [fs EXCEPT ![inodeNum] = wrote.inode],
                                  inodeNum, wrote.count, "SeekCursor")
    IN  [table |-> [table EXCEPT ![descriptor + 1] = moved.descriptor],
         inodes |-> moved.inodes, count |-> wrote.count]

\* RepositionOffset lines 80-86: the system call Seek.
Seek(table, fs, descriptor, offset, seekType) ==
    LET fileDescriptor == table[descriptor + 1]
        moved == RepositionOffset(fileDescriptor, fs,
                                  fileDescriptor.vNode.inodeNum, offset,
                                  seekType)
    IN  [table |-> [table EXCEPT ![descriptor + 1] = moved.descriptor],
         inodes |-> moved.inodes, offset |-> moved.descriptor.offset]

CurrentTable(c) == fileDescriptors[currentTask[c].vfs]

Descriptors(c) == 0..(Len(CurrentTable(c)) - 1)

OpenSystemCall(c, path, flags) ==
    /\ panic = "none"
    /\ InUser(c)
    /\ FreeSlots(CurrentTable(c)) # {} \/ Len(CurrentTable(c)) < MaxDescriptors
    /\ ("OCreate" \in flags /\ ~TraversePath(inodes, path).exists)
           => \E n \in InodeNums : inodes[n].type = "Free"
    /\ LET o == Open(CurrentTable(c), inodes, path, flags)
       IN  /\ fileDescriptors' =
                  [fileDescriptors EXCEPT ![currentTask[c].vfs] = o.table]
           /\ inodes' = o.inodes
           /\ vnodeCache' = vnodeCache
           /\ panic' = IF o.halted THEN "KAssert" ELSE panic
           /\ lastOp' = Op("Open", c, currentTask[c].pid, o.descriptor)
    /\ UNCHANGED <<taskQueue, nextPid, currentTask, restoreFrame,
                   timerEntries, currentTimerTime, cpu>>

CloseSystemCall(c, descriptor) ==
    /\ panic = "none"
    /\ InUser(c)
    /\ descriptor \in Descriptors(c)
    /\ fileDescriptors' =
           [fileDescriptors EXCEPT
               ![currentTask[c].vfs] = Close(CurrentTable(c), descriptor)]
    /\ lastOp' = Op("Close", c, currentTask[c].pid, descriptor)
    /\ UNCHANGED <<taskQueue, nextPid, currentTask, restoreFrame,
                   timerEntries, currentTimerTime, cpu, panic, inodes, vnodeCache>>

ReadSystemCall(c, descriptor, count) ==
    /\ panic = "none"
    /\ InUser(c)
    /\ descriptor \in Descriptors(c)
    /\ LET r == Read(CurrentTable(c), inodes, descriptor, count)
       IN  /\ fileDescriptors' =
                  [fileDescriptors EXCEPT ![currentTask[c].vfs] = r.table]
           /\ inodes' = r.inodes
           /\ vnodeCache' = vnodeCache
           /\ lastOp' = Op("Read", c, currentTask[c].pid, r.count)
    /\ UNCHANGED <<taskQueue, nextPid, currentTask, restoreFrame,
                   timerEntries, currentTimerTime, cpu, panic>>

SeekSystemCall(c, descriptor, offset, seekType) ==
    /\ panic = "none"
    /\ InUser(c)
    /\ descriptor \in Descriptors(c)
    /\ LET r == Seek(CurrentTable(c), inodes, descriptor, offset, seekType)
       IN  /\ r.offset <= MaxCount
           /\ fileDescriptors' =
                  [fileDescriptors EXCEPT ![currentTask[c].vfs] = r.table]
           /\ inodes' = r.inodes
           /\ vnodeCache' = vnodeCache
           /\ lastOp' = Op("Seek", c, currentTask[c].pid, r.offset)
    /\ UNCHANGED <<taskQueue, nextPid, currentTask, restoreFrame,
                   timerEntries, currentTimerTime, cpu, panic>>

WriteSystemCall(c, descriptor, count) ==
    /\ panic = "none"
    /\ InUser(c)
    /\ descriptor \in Descriptors(c)
    /\ LET r == Write(CurrentTable(c), inodes, descriptor, count)
       IN  /\ CurrentTable(c)[descriptor + 1].offset + count <= MaxCount + 1
           /\ fileDescriptors' =
                  [fileDescriptors EXCEPT ![currentTask[c].vfs] = r.table]
           /\ inodes' = r.inodes
           /\ vnodeCache' = vnodeCache
           /\ lastOp' = Op("Write", c, currentTask[c].pid, r.count)
    /\ UNCHANGED <<taskQueue, nextPid, currentTask, restoreFrame,
                   timerEntries, currentTimerTime, cpu, panic>>

\* ----------------------------------------------------- specifications
\* Everything a core does to the run queue except sleeping.
Step(c) ==
    \/ LAPICTimerInterrupt(c)
    \/ Int81(c)
    \/ SuspendReturn(c)
    \/ \E s \in {"Blocked", "WaitingForChild"} : SuspendSystemCall(c, s)
    \/ ExitCurrentTask(c)
    \/ ForkCurrentTask(c)
    \/ CreateTaskFromELF(c)
    \/ \E pid \in Pids : UnblockTask(c, pid)
    \/ \E pid \in Pids, v \in RaxValues : UnsuspendTask(c, pid, v)

\* Only the bootstrap processor runs tasks.
Next == Step(BSP)

Spec == Init /\ [][Next]_vars

\* Tasks are created, run in user code and suspend themselves; nothing
\* exits. The hardware guarantees that the armed one-shot timer fires (at
\* most TimeSlice ms after the switch that armed it) and that a core inside
\* SuspendSystemCall goes on executing it.
LiveNext ==
    \/ LAPICTimerInterrupt(BSP)
    \/ CreateTaskFromELF(BSP)
    \/ ForkCurrentTask(BSP)
    \/ \E s \in {"Blocked", "WaitingForChild"} : SuspendSystemCall(BSP, s)
    \/ Int81(BSP)
    \/ SuspendReturn(BSP)
    \/ \E pid \in Pids, v \in RaxValues : UnsuspendTask(BSP, pid, v)

LiveSpec ==
    /\ Init /\ [][LiveNext]_vars
    /\ WF_vars(LAPICTimerInterrupt(BSP))
    /\ WF_vars(Int81(BSP))
    /\ WF_vars(SuspendReturn(BSP))

\* All cores of the machine, sharing the one run queue; a suspended task is
\* woken by Unsuspend(pid, 0), and int 0x81 is raised with rax = 0 when the
\* timer has counted down.
SMPStep(c) ==
    \/ LAPICTimerInterrupt(c)
    \/ Int81At(c, 0, 0)
    \/ SuspendReturn(c)
    \/ SuspendSystemCall(c, "Blocked")
    \/ ExitCurrentTask(c)
    \/ ForkCurrentTask(c)
    \/ CreateTaskFromELF(c)
    \/ \E pid \in Pids : UnsuspendTask(c, pid, 0)

SMPNext == \E c \in CPUs : SMPStep(c)

SMPSpec == Init /\ [][SMPNext]_vars

\* One core on which tasks block and are woken by Unblock alone.
BlockNext ==
    \/ LAPICTimerInterrupt(BSP)
    \/ Int81(BSP)
    \/ SuspendReturn(BSP)
    \/ SuspendSystemCall(BSP, "Blocked")
    \/ CreateTaskFromELF(BSP)
    \/ \E pid \in Pids : UnblockTask(BSP, pid)

BlockSpec == Init /\ [][BlockNext]_vars

\* One core whose tasks sleep: timer entries, their expiry and the arming
\* of the one-shot timer.
TimerNext ==
    \/ LAPICTimerInterrupt(BSP)
    \/ Int81(BSP)
    \/ SuspendReturn(BSP)
    \/ \E ms \in 1..MaxSleep : SleepCurrentTask(BSP, ms)
    \/ ExitCurrentTask(BSP)
    \/ CreateTaskFromELF(BSP)

TimerSpec == Init /\ [][TimerNext]_vars

\* The sleep-ordering scenario on one core: every task sleeps for a duration
\* of its own, SleepTime(pid) (30, 10, 20 ms for pids 1, 2, 3), and the
\* sleeps follow each other at once. The first sleeper calls Sleep at any
\* point of its timer period, each later one 1 ms after it was switched in,
\* and the timer fires only while the idle task runs.
SleepTime(pid) == SleepGap * (((pid + 1) % MaxPid) + 1)

SleepNext ==
    \/ CreateTaskFromELF(BSP)
    \/ currentTask[BSP].pid = 0 /\ LAPICTimerInterrupt(BSP)
    \/ SleepCurrentTask(BSP, SleepTime(currentTask[BSP].pid))
    \/ Len(timerEntries[BSP]) = 1 /\ Int81(BSP)
    \/ Len(timerEntries[BSP]) > 1
           /\ Int81At(BSP, currentTimerTime[BSP] - 1, 0)

SleepSpec == Init /\ [][SleepNext]_vars

\* One program, loaded once, opening and closing descriptors.
VFSNext ==
    \/ nextPid = 1 /\ CreateTaskFromELF(BSP)
    \/ LAPICTimerInterrupt(BSP)
    \/ \E path \in Paths, flags \in OpenFlagSets :
           OpenSystemCall(BSP, path, flags)
    \/ \E descriptor \in 0..(MaxDescriptors - 1) :
           CloseSystemCall(BSP, descriptor)

VFSSpec == Init /\ [][VFSNext]_vars

\* One program, loaded once, opening, reading and closing existing files.
CycleNext ==
    \/ nextPid = 1 /\ CreateTaskFromELF(BSP)
    \/ LAPICTimerInterrupt(BSP)
    \/ \E path \in {TtyPath, <<"a">>} : OpenSystemCall(BSP, path, {})
    \/ \E descriptor \in 0..(MaxDescriptors - 1), count \in 1..MaxCount :
           ReadSystemCall(BSP, descriptor, count)
    \/ \E descriptor \in 0..(MaxDescriptors - 1) :
           CloseSystemCall(BSP, descriptor)

CycleSpec == Init /\ [][CycleNext]_vars

\* Programs whose path traversals cross /dev and the Ext2 volume.
DeviceNext ==
    \/ nextPid = 1 /\ CreateTaskFromELF(BSP)
    \/ LAPICTimerInterrupt(BSP)
    \/ \E directory \in DeviceDirectories, name \in DeviceNames :
           FindInDirectoryCall(BSP, directory, name)
    \/ \E inodeNum \in InodeNums : Ext2CacheVNode(BSP, inodeNum)

DeviceSpec == Init /\ [][DeviceNext]_vars

\* The kernel loading ELF files while a program runs.
LoaderNext ==
    \/ nextPid = 1 /\ CreateTaskFromELF(BSP)
    \/ \E image \in ELFImages, entry \in UninitialisedEntries :
           LoadELFCall(BSP, image, entry)

LoaderSpec == Init /\ [][LoaderNext]_vars

\* The kernel loading Load segments while a program runs.
SegmentNext ==
    \/ nextPid = 1 /\ CreateTaskFromELF(BSP)
    \/ LAPICTimerInterrupt(BSP)
    \/ \E programHeader \in LoadSegments, type \in {"Executable", "Shared"} :
           LoadProgramHeaderCall(BSP, programHeader, type)

SegmentSpec == Init /\ [][SegmentNext]_vars

\* Programs that run, fork, exit and fault.
FaultNext ==
    \/ CreateTaskFromELF(BSP)
    \/ LAPICTimerInterrupt(BSP)
    \/ ForkCurrentTask(BSP)
    \/ ExitCurrentTask(BSP)
    \/ \E interruptNumber \in ExceptionVectors :
           ExceptionHandler(BSP, interruptNumber)

FaultSpec == Init /\ [][FaultNext]_vars

\* Programs making system calls that succeed or fail.
SystemCallNext ==
    \/ CreateTaskFromELF(BSP)
    \/ LAPICTimerInterrupt(BSP)
    \/ \E result \in RaxValues, error \in {ErrorNone} \cup Errors :
           SystemCallHandler(BSP, result, error)

SystemCallSpec == Init /\ [][SystemCallNext]_vars

\* One program, loaded once, appending to /a, creating /b for appending,
\* and reading, writing, seeking and closing the descriptors it opened.
FileOpens ==
    {<<<<"a">>, {}>>, <<<<"a">>, {"OAppend"}>>,
     <<<<"b">>, {"OCreate", "OAppend"}>>}

FileNext ==
    \/ nextPid = 1 /\ CreateTaskFromELF(BSP)
    \/ LAPICTimerInterrupt(BSP)
    \/ \E open \in FileOpens : OpenSystemCall(BSP, open[1], open[2])
    \/ \E descriptor \in ForkDescriptors : CloseSystemCall(BSP, descriptor)
    \/ \E descriptor \in ForkDescriptors, count \in 1..MaxCount :
           ReadSystemCall(BSP, descriptor, count)
    \/ \E descriptor \in ForkDescriptors, count \in 1..MaxCount :
           WriteSystemCall(BSP, descriptor, count)
    \/ \E descriptor \in ForkDescriptors, offset \in 0..MaxCount,
          seekType \in SeekTypes :
           SeekSystemCall(BSP, descriptor, offset, seekType)

FileSpec == Init /\ [][FileNext]_vars

\* One program and the children it forks, each working on its own table;
\* the seeks drawn stay inside the file.
ForkNext ==
    \/ nextPid = 1 /\ CreateTaskFromELF(BSP)
    \/ LAPICTimerInterrupt(BSP)
    \/ nextPid < MaxPid /\ ForkCurrentTask(BSP)
    \/ ExitCurrentTask(BSP)
    \/ OpenSystemCall(BSP, <<"a">>, {})
    \/ \E descriptor \in ForkDescriptors : CloseSystemCall(BSP, descriptor)
    \/ \E descriptor \in ForkDescriptors, count \in 1..MaxCount :
           ReadSystemCall(BSP, descriptor, count)
    \/ \E descriptor \in ForkDescriptors, offset \in 0..MaxCount,
          seekType \in SeekTypes :
           SeekSystemCall(BSP, descriptor, offset, seekType) /\ inodes' = inodes

ForkSpec == Init /\ [][ForkNext]_vars

\* ------------------------------------------------------------- claims
InQueue(pid) == pid \in QueuePids(taskQueue)

IsCurrent(pid) == \E c \in CPUs : currentTask[c].pid = pid

NormalInQueue(pid) ==
    \E i \in 1..Len(taskQueue) :
        taskQueue[i].pid = pid /\ taskQueue[i].state = "Normal"

NormalCurrent(pid) ==
    \E c \in CPUs : currentTask[c].pid = pid /\ currentTask[c].state = "Normal"

\* The step is a completed SwitchToNextTask on core c.
SwitchStep(c) ==
    /\ lastOp'.op \in {"Timer", "Int81", "Exit"}
    /\ lastOp'.cpu = c
    /\ panic' = "none"

\* C1: every created task that has not exited and whose state is Normal is
\* the current task of a core or in the run queue: no step other than the
\* task's own exit takes a Normal task out of both.
C1_NormalTaskKept ==
    [][\A pid \in Pids :
          ((NormalInQueue(pid) \/ NormalCurrent(pid))
              /\ ~(lastOp'.op = "Exit" /\ lastOp'.pid = pid))
          => (InQueue(pid)' \/ IsCurrent(pid)')]_vars

\* The run queue as the selection loop of a switch on core c sees it when no
\* timer entry is pending: the running task appended if its frame is saved.
QueueAtSelection(c) ==
    IF restoreFrame[c] /\ lastOp'.op # "Exit"
    THEN Append(taskQueue, currentTask[c])
    ELSE taskQueue

FirstNormal(q) ==
    CHOOSE i \in 1..Len(q) :
        q[i].state = "Normal" /\ \A j \in 1..(i - 1) : q[j].state # "Normal"

HasNormal(q) == \E i \in 1..Len(q) : q[i].state = "Normal"

\* C2: a switch makes current the Normal entry nearest the head of the queue
\* (taken after the running task was appended).
C2_SelectsFirstNormal ==
    [][\A c \in CPUs :
          (SwitchStep(c) /\ timerEntries[c] = <<>>
              /\ HasNormal(QueueAtSelection(c)))
          => currentTask'[c].pid =
                 QueueAtSelection(c)[FirstNormal(QueueAtSelection(c))].pid]_vars

\* C3: a Normal task in the run queue becomes the current task under
\* repeated timer-driven switches (unless the kernel halts): none is starved.
C3_NormalTaskEventuallyRuns ==
    \A pid \in Pids :
        (NormalInQueue(pid) /\ panic = "none")
            ~> (IsCurrent(pid) \/ panic # "none")

\* How many queue slots and cores hold a task with this PID.
QueueCount(pid) == Cardinality({i \in 1..Len(taskQueue) : taskQueue[i].pid = pid})

CurrentCount(pid) == Cardinality({c \in CPUs : currentTask[c].pid = pid})

\* C4: no task's PID is twice in the run queue, no task is both queued and
\* current, and no task other than idle is current on two cores.
C4_TaskHeldOnce ==
    \A pid \in Pids : QueueCount(pid) + CurrentCount(pid) <= 1

\* Both cores run tasks while a third one waits in the queue.
C4_Witness ==
    /\ \A c \in CPUs : currentTask[c].pid # 0
    /\ taskQueue # <<>>
    /\ lastOp.op = "Timer"

\* C5: a switch that finds no Normal entry (the running task appended if
\* saved) makes the idle task current, and the idle task is never queued.
C5_IdleWhenNoneNormal ==
    [][/\ \A c \in CPUs :
              (SwitchStep(c) /\ timerEntries[c] = <<>>
                  /\ ~HasNormal(QueueAtSelection(c)))
              => currentTask'[c] = IdleTask
       /\ ~InQueue(0)']_vars

\* The timer interrupted the idle task while only suspended tasks were
\* queued: idle is current again and the queue still holds only them.
C5_Witness ==
    /\ lastOp = Op("Timer", BSP, 0, 0)
    /\ panic = "none"
    /\ currentTask[BSP] = IdleTask
    /\ taskQueue # <<>>
    /\ ~HasNormal(taskQueue)

\* C6: a task woken by Unsuspend(pid, v) is eventually running again, with
\* SuspendSystemCall returning exactly v in state Normal (unless the kernel
\* halted on a check that is not the one of line 157).
C6_UnsuspendedTaskReturns ==
    \A pid \in Pids : \A v \in RaxValues :
        (lastOp = Op("Unsuspend", BSP, pid, v) /\ panic = "none")
            ~> \/ lastOp = Op("SuspendReturn", BSP, pid, v) /\ panic = "none"
               \/ panic \notin {"none", "ResumeState"}

\* C7: Unblock(pid) on a queued Blocked task changes that task's state to
\* Normal and nothing else: its saved frame (rax included), the other queue
\* entries, the running tasks and the registers stay as they were.
C7_UnblockChangesOnlyState ==
    [][\A pid \in Pids :
          (lastOp' = Op("Unblock", BSP, pid, 0) /\ panic' = "none")
          => /\ Len(taskQueue') = Len(taskQueue)
             /\ \A i \in 1..Len(taskQueue) :
                    IF taskQueue[i].pid = pid
                    THEN /\ taskQueue[i].state = "Blocked"
                         /\ taskQueue'[i] =
                                [taskQueue[i] EXCEPT !.state = "Normal"]
                    ELSE taskQueue'[i] = taskQueue[i]
             /\ UNCHANGED <<currentTask, restoreFrame, timerEntries,
                            currentTimerTime, cpu, nextPid>>]_vars

\* A task suspended with a non-zero value in rax has just been unblocked
\* while another task waits in the queue.
C7_Witness ==
    /\ lastOp.op = "Unblock"
    /\ panic = "none"
    /\ Len(taskQueue) > 1
    /\ \E i \in 1..Len(taskQueue) :
           /\ taskQueue[i].pid = lastOp.pid
           /\ taskQueue[i].state = "Normal"
           /\ taskQueue[i].frame = Frame(1, "resumed")

\* C8: whatever time the LAPIC reports as elapsed (line 126 holding), the
\* int 0x81 of a sleeping task leaves the kernel running and the sleeper
\* queued, Blocked until its entry expires.
C8_SleeperWaitsForExpiry ==
    [][\A pid \in Pids :
          (lastOp.op = "Sleep" /\ lastOp.pid = pid /\ lastOp'.op = "Int81"
              /\ panic' # "TimerElapsed")
          => /\ panic' = "none"
             /\ \E i \in 1..Len(taskQueue') :
                    /\ taskQueue'[i].pid = pid
                    /\ taskQueue'[i].state = "Blocked" <=> HasTimer(pid)']_vars

MinEntry(entries) ==
    IF entries = <<>> THEN TimeSlice
    ELSE CHOOSE m \in {entries[i].milliseconds : i \in 1..Len(entries)} :
             \A i \in 1..Len(entries) : m <= entries[i].milliseconds

\* C10: the armed time is always within 1..100 ms, and after every switch
\* it is the smaller of 100 ms and the smallest pending timer entry.
C10_TimerArmedToClosest ==
    \A c \in CPUs :
        /\ currentTimerTime[c] \in 1..TimeSlice
        /\ (lastOp.op \in {"Timer", "Int81", "Exit"} /\ lastOp.cpu = c
               /\ panic = "none")
           => currentTimerTime[c] =
                  IF MinEntry(timerEntries[c]) < TimeSlice
                  THEN MinEntry(timerEntries[c]) ELSE TimeSlice

\* A switch has just armed the timer for a pending sleep of the shortest
\* duration left, below the time slice, with a longer one pending as well.
C10_Witness ==
    /\ lastOp.op = "Int81"
    /\ panic = "none"
    /\ Len(timerEntries[BSP]) > 1
    /\ currentTimerTime[BSP] < TimeSlice
    /\ \E i \in 1..Len(timerEntries[BSP]) :
           timerEntries[BSP][i].milliseconds > currentTimerTime[BSP]

\* C9: tasks that went to sleep together wake in the order of their
\* durations: when a task's timer entry expires, no task that asked for a
\* shorter sleep is still waiting for its own.
C9_WakeInDurationOrder ==
    [][\A p \in Pids : \A q \in Pids :
          (panic' = "none" /\ HasTimer(p) /\ ~HasTimer(p)'
              /\ HasTimer(q) /\ HasTimer(q)')
          => SleepTime(p) < SleepTime(q)]_vars

\* C11: ExitCurrentTask does not queue the exiting task: after the switch
\* the exited PID is neither queued nor current, the next task is a Normal
\* entry of the queue as it was (idle if there is none), and a PID that has
\* left both the queue and the cores never comes back.
C11_ExitedTaskGone ==
    [][/\ \A c \in CPUs :
              (lastOp'.op = "Exit" /\ lastOp'.cpu = c /\ panic' = "none")
              => /\ lastOp'.pid = currentTask[c].pid
                 /\ lastOp'.pid \notin QueuePids(taskQueue')
                 /\ \A d \in CPUs : currentTask'[d].pid # lastOp'.pid
                 /\ QueuePids(taskQueue') \subseteq QueuePids(taskQueue)
                 /\ IF HasNormal(taskQueue)
                    THEN \E i \in 1..Len(taskQueue) :
                             /\ taskQueue[i].state = "Normal"
                             /\ currentTask'[c] = taskQueue[i]
                    ELSE currentTask'[c] = IdleTask
       /\ \A pid \in 1..(nextPid - 1) :
              (~InQueue(pid) /\ ~IsCurrent(pid))
              => (~InQueue(pid)' /\ ~IsCurrent(pid)')]_vars

\* A task has exited and is gone; a task from the queue runs in its place
\* while others stay queued.
C11_Witness ==
    /\ lastOp.op = "Exit"
    /\ panic = "none"
    /\ currentTask[BSP].pid \notin {0, lastOp.pid}
    /\ taskQueue # <<>>
    /\ ~InQueue(lastOp.pid)

\* C12: ForkCurrentTask appends one task to the queue: it has a fresh PID,
\* state Normal and the parent's frame with rax = 0 (same rip); the parent
\* is returned the child's PID and is otherwise untouched.
C12_ForkChild ==
    [][\A c \in CPUs :
          (lastOp'.op = "Fork" /\ lastOp'.cpu = c)
          => LET child == taskQueue'[Len(taskQueue')] IN
             /\ taskQueue' = Append(taskQueue, child)
             /\ child.pid = nextPid /\ nextPid' = nextPid + 1
             /\ child.pid # 0
             /\ ~InQueue(child.pid) /\ ~IsCurrent(child.pid)
             /\ child.state = "Normal"
             /\ child.frame.rax = 0
             /\ child.frame.rip = cpu[c].rip
             /\ lastOp'.pid = currentTask[c].pid
             /\ lastOp'.val = child.pid
             /\ UNCHANGED <<currentTask, cpu, restoreFrame, panic>>]_vars

\* A fork has just returned the child's PID to the parent, which runs on;
\* the child is the last entry of a queue that held a task before.
C12_Witness ==
    /\ lastOp.op = "Fork"
    /\ Len(taskQueue) > 1
    /\ taskQueue[Len(taskQueue)].pid = lastOp.val
    /\ taskQueue[Len(taskQueue)].frame = Frame(0, "user")
    /\ currentTask[BSP].pid = lastOp.pid
    /\ lastOp.val > lastOp.pid

\* The tasks that exist: queued, or current on a core.
LiveTasks ==
    {taskQueue[i] : i \in 1..Len(taskQueue)}
        \cup {currentTask[c] : c \in CPUs}

\* C13: two distinct tasks never have the same syscallStackAddr, the stack
\* top SwitchToNextTask loads into the TSS for the task it selects (line 90).
C13_OwnSystemCallStack ==
    \A t \in LiveTasks : \A u \in LiveTasks :
        (t.pid # 0 /\ u.pid # 0 /\ t.pid # u.pid)
        => t.syscallStackAddr # u.syscallStackAddr

LivePids == {t.pid : t \in LiveTasks} \ {0}

\* C14: on every core a created task receives the counter's value, which is
\* at least 1 and larger than the PID of every task created before, and the
\* counter only grows: no two tasks hold the same PID.
C14_PidsFresh ==
    [][/\ nextPid >= 1 /\ nextPid' >= nextPid
       /\ \A pid \in LivePids : pid < nextPid
       /\ lastOp'.op \in {"Fork", "Exec"}
          => LET task == taskQueue'[Len(taskQueue')] IN
             /\ task.pid = nextPid
             /\ nextPid' = nextPid + 1
             /\ task.pid \notin LivePids
             /\ LivePids' = LivePids \cup {task.pid}
             /\ Cardinality(LiveTasks') = Cardinality(LiveTasks) + 1]_vars

\* The second core has just forked the last PID of the bound while every
\* PID handed out before is still held by a live task.
C14_Witness ==
    /\ lastOp.op = "Fork"
    /\ lastOp.cpu # BSP
    /\ lastOp.val = MaxPid
    /\ LivePids = Pids
    /\ \E i \in 1..Len(taskQueue) : taskQueue[i].pid = 1

\* The PID of the task a Fork or Exec step created.
CreatedPid(op) == IF op.op = "Fork" THEN op.val ELSE op.pid

\* C15: a task created on one core is not selected by the scheduler of
\* another core: a timer switch on core d that follows a creation on core c
\* does not make the new task current on d.
C15_TaskPinned ==
    [][\A c \in CPUs : \A d \in CPUs \ {c} :
          (lastOp.op \in {"Fork", "Exec"} /\ lastOp.cpu = c
              /\ lastOp'.op = "Timer" /\ lastOp'.cpu = d /\ panic' = "none")
          => currentTask'[d].pid # CreatedPid(lastOp)]_vars

\* The table a task reaches through its vfs pointer.
TableOf(task) == fileDescriptors[task.vfs]

\* C16: fork leaves the parent's descriptor table as it was and gives the
\* child a VFS of its own holding an equal table; after that no open,
\* close, read or seek of a task, nor its exit, changes the table of any
\* other task. So the parent's table is the same after the child's calls
\* and exit as before the fork.
C16_ForkLeavesParentTable ==
    [][/\ lastOp'.op = "Fork"
          => LET parent == currentTask[lastOp'.cpu]
                 child == taskQueue'[Len(taskQueue')]
             IN  /\ fileDescriptors'[parent.vfs] = TableOf(parent)
                 /\ currentTask'[lastOp'.cpu].vfs = parent.vfs
                 /\ child.vfs # parent.vfs
                 /\ fileDescriptors'[child.vfs] = TableOf(parent)
       /\ lastOp'.op \in {"Fork", "Open", "Close", "Read", "Seek", "Exit"}
          => \A t \in LiveTasks :
                 t.pid \notin {0, lastOp'.pid}
                 => fileDescriptors'[t.vfs] = TableOf(t)]_vars

\* The child, PID 2, has opened /a on a fourth descriptor, closed it and
\* exited; the parent runs on with the three descriptors it was loaded with.
C16_Witness ==
    /\ lastOp.op = "Exit"
    /\ lastOp.pid = 2
    /\ currentTask[BSP].pid = 1
    /\ Len(TableOf(currentTask[BSP])) = 3
    /\ \A i \in 1..3 : TableOf(currentTask[BSP])[i] =
                           FileDescriptor(TRUE, 0, VNode("tty", 4))
    /\ Len(fileDescriptors[2]) = 4
    /\ fileDescriptors[2][4] = FileDescriptor(FALSE, 0, VNode("a", 5))

\* The table of the task that makes the system call of this step.
CallerTable == TableOf(currentTask[lastOp'.cpu])

\* The same table as the system call leaves it.
CallerTableAfter == fileDescriptors'[currentTask[lastOp'.cpu].vfs]

\* C17: Open returns the lowest free slot of the caller's table when there
\* is one, and otherwise appends a slot and returns its index, the length
\* the table had.
C17_OpenReturnsLowestFree ==
    [][(lastOp'.op = "Open" /\ panic' = "none")
       => IF FreeSlots(CallerTable) # {}
          THEN /\ lastOp'.val = Least(FreeSlots(CallerTable))
               /\ Len(CallerTableAfter) = Len(CallerTable)
          ELSE /\ lastOp'.val = Len(CallerTable)
               /\ Len(CallerTableAfter) = Len(CallerTable) + 1]_vars

\* C18: Close clears present and zeroes the offset of its slot and changes
\* nothing else of the table, so the table keeps its length and has a free
\* slot; Read changes neither the length nor which slots are free; and an
\* Open that finds a free slot does not lengthen the table. So from the
\* Close of the first Open; Read; Close cycle on, the length stays.
C18_CloseFreesSlot ==
    [][/\ lastOp'.op = "Close"
          => /\ Len(CallerTableAfter) = Len(CallerTable)
             /\ \A i \in 1..Len(CallerTable) :
                    CallerTableAfter[i] =
                        IF i = lastOp'.val + 1
                        THEN [CallerTable[i] EXCEPT !.present = FALSE,
                                                    !.offset = 0]
                        ELSE CallerTable[i]
             /\ FreeSlots(CallerTableAfter) # {}
       /\ lastOp'.op = "Read"
          => /\ Len(CallerTableAfter) = Len(CallerTable)
             /\ FreeSlots(CallerTableAfter) = FreeSlots(CallerTable)
       /\ (lastOp'.op = "Open" /\ FreeSlots(CallerTable) # {})
          => Len(CallerTableAfter) = Len(CallerTable)]_vars

\* A cycle has opened /a on the descriptor it appended, 3, and closed it:
\* the slot is still in the table, free, with offset 0 and its vnode.
C18_Witness ==
    /\ lastOp.op = "Close"
    /\ lastOp.val = 3
    /\ Len(TableOf(currentTask[BSP])) = MaxDescriptors
    /\ TableOf(currentTask[BSP])[4] = FileDescriptor(FALSE, 0, VNode("a", 5))
    /\ \A i \in 1..3 : TableOf(currentTask[BSP])[i].present

\* The inode the first n tokens of the path lead to from the root, 0 when
\* one of them has no entry in its directory.
RECURSIVE Resolve(_, _, _)
Resolve(fs, path, n) ==
    IF n = 0 THEN INODE_ROOT_DIR
    ELSE LET dir == Resolve(fs, path, n - 1)
             hits == IF dir = 0 THEN {}
                     ELSE {k \in 1..Len(fs[dir].listing) :
                               fs[dir].listing[k].name = path[n]}
         IN  IF hits = {} THEN 0
             ELSE fs[dir].listing[Least(hits)].inodeNum

\* C19: Open without OCreate of a path whose directories exist and whose
\* final component does not returns an error (a negative value) and leaves
\* the caller's table as it was.
C19_OpenMissingNotFound ==
    [][\A path \in Paths :
          (/\ OpenSystemCall(BSP, path, {})
           /\ Resolve(inodes, path, Len(path) - 1) # 0
           /\ Resolve(inodes, path, Len(path)) = 0)
          => /\ lastOp'.val < 0
             /\ CallerTableAfter = CallerTable]_vars

\* C20: TraversePath returns the final component's vnode with exists set
\* when every component resolves, the parent directory's vnode with the
\* unresolved name and exists clear when only the last one does not, and
\* an Open whose path has an unresolved intermediate component returns
\* to its caller with an error instead of halting the kernel.
C20_TraversePathResult ==
    [][\A path \in Paths, flags \in OpenFlagSets :
          OpenSystemCall(BSP, path, flags)
          => LET found == TraversePath(inodes, path)
                 final == Resolve(inodes, path, Len(path))
                 parent == Resolve(inodes, path, Len(path) - 1)
             IN  /\ final # 0
                    => /\ found.vNode.inodeNum = final
                       /\ found.exists /\ ~found.halted
                 /\ (final = 0 /\ parent # 0)
                    => /\ found.vNode.inodeNum = parent
                       /\ found.finalPathToken = path[Len(path)]
                       /\ ~found.exists /\ ~found.halted
                 /\ parent = 0
                    => /\ ~found.halted
                       /\ panic' = "none"
                       /\ lastOp'.val < 0]_vars

\* C21: an Open with OAppend leaves the descriptor it returns at the size
\* of the file the descriptor refers to; for a file the Open has just
\* created that is offset 0.
C21_AppendAtEndOfFile ==
    [][\A open \in FileOpens :
          (OpenSystemCall(BSP, open[1], open[2]) /\ "OAppend" \in open[2])
          => LET opened == CallerTableAfter[lastOp'.val + 1]
             IN  opened.offset = inodes'[opened.vNode.inodeNum].size0]_vars

\* C22: Read and Write return the count the inode reports and move the
\* descriptor's offset forward by exactly that count; a Read at the end of
\* the file reports 0 and changes neither the offset nor the volume.
C22_OffsetAdvancesByCount ==
    [][\A descriptor \in ForkDescriptors, count \in 1..MaxCount :
          LET fileDescriptor == CallerTable[descriptor + 1]
              inode == inodes[fileDescriptor.vNode.inodeNum]
              after == CallerTableAfter[descriptor + 1]
          IN  /\ ReadSystemCall(BSP, descriptor, count)
                 => /\ lastOp'.val =
                           InodeRead(inode, count, fileDescriptor.offset)
                    /\ after.offset = fileDescriptor.offset + lastOp'.val
                    /\ fileDescriptor.offset = inode.size0
                       => /\ lastOp'.val = 0
                          /\ after.offset = fileDescriptor.offset
                          /\ inodes' = inodes
              /\ WriteSystemCall(BSP, descriptor, count)
                 => /\ lastOp'.val =
                           InodeWrite(inode, count, fileDescriptor.offset).count
                    /\ after.offset = fileDescriptor.offset + lastOp'.val]_vars

\* A Read on a descriptor of /a that stands at the end of the one-byte
\* file has returned 0.
C22_Witness ==
    /\ lastOp.op = "Read"
    /\ lastOp.val = 0
    /\ Len(TableOf(currentTask[BSP])) = 4
    /\ LET fileDescriptor == TableOf(currentTask[BSP])[4]
       IN  /\ fileDescriptor.present
           /\ fileDescriptor.vNode.name = "a"
           /\ fileDescriptor.offset = 1
           /\ inodes[fileDescriptor.vNode.inodeNum].size0 = 1

\* C23: a Seek returns the new offset of its descriptor and changes no
\* inode, also when that offset is beyond the end of the file.
C23_SeekLeavesFile ==
    [][\A descriptor \in ForkDescriptors, offset \in 0..MaxCount,
          seekType \in SeekTypes :
          SeekSystemCall(BSP, descriptor, offset, seekType)
          => /\ lastOp'.val = CallerTableAfter[descriptor + 1].offset
             /\ inodes' = inodes]_vars

\* C24: after the system-call handler the return register holds the
\* call's result when the call reported no error, and the negation of the
\* error kind, a negative value, when it reported one, whatever the call
\* returned.
C24_ReturnRegister ==
    [][\A result \in RaxValues, error \in {ErrorNone} \cup Errors :
          (lastOp'.op = "SystemCall" /\ SystemCallHandler(BSP, result, error))
          => /\ error = ErrorNone => cpu'[BSP].rax = result
             /\ error # ErrorNone
                => /\ cpu'[BSP].rax = 0 - error
                   /\ cpu'[BSP].rax < 0]_vars

\* A call that returned a non-zero value and reported the last error kind
\* has left the negated kind in rax.
C24_Witness ==
    /\ lastOp.op = "SystemCall"
    /\ lastOp.val.result = MaxRax
    /\ lastOp.val.error = MaxError
    /\ cpu[BSP].rax = 0 - MaxError

\* C25: an exception raised while a user task runs ends that task only:
\* the kernel does not halt, the task is neither queued nor current
\* afterwards, and every other task is still queued or current.
C25_FaultEndsTaskOnly ==
    [][lastOp'.op = "Exception"
       => /\ panic' = "none"
          /\ lastOp'.pid \notin QueuePids(taskQueue')
          /\ \A d \in CPUs : currentTask'[d].pid # lastOp'.pid
          /\ \A pid \in QueuePids(taskQueue) :
                 \/ pid \in QueuePids(taskQueue')
                 \/ \E d \in CPUs : currentTask'[d].pid = pid]_vars

\* The device registered under this name, 0 when there is none.
RegisteredDevice(name) ==
    LET hits == {i \in 1..Len(DeviceFS.devices) :
                    DeviceFS.devices[i].name = name}
    IN  IF hits = {} THEN 0 ELSE Least(hits)

\* C26: a lookup in the DeviceFS root returns a vnode exactly when a
\* registered device has the name and null otherwise; a hit is always the
\* object cached when the device was registered, its inode number is the
\* device's and its filesystem field is DeviceFS.
C26_DeviceLookup ==
    [][\A name \in DeviceNames :
          (/\ lastOp'.op = "FindInDirectory"
           /\ FindInDirectoryCall(BSP, DeviceFS.fileSystemRoot, name))
          => LET device == RegisteredDevice(name)
                 file == lastOp'.val
             IN  /\ panic' = "none"
                 /\ (device = 0) <=> (file = NullVnode.address)
                 /\ device # 0
                    => /\ file \in 1..Len(DeviceFS.cache)
                       /\ vnodeCache'[file] = DeviceFS.cache[file]
                       /\ vnodeCache'[file].address = file
                       /\ vnodeCache'[file].inodeNum
                              = DeviceFS.devices[device].inodeNum
                       /\ vnodeCache'[file].fileSystem = "DeviceFS"]_vars

\* The terminal has been looked up in a cache that also holds an Ext2 vnode
\* with the terminal's inode number, and the terminal's vnode was returned.
C26_Witness ==
    /\ lastOp.op = "FindInDirectory"
    /\ panic = "none"
    /\ lastOp.val = 2
    /\ vnodeCache[lastOp.val].context = "tty"
    /\ \E i \in 1..Len(vnodeCache) :
           /\ vnodeCache[i].fileSystem = "Ext2"
           /\ vnodeCache[i].inodeNum = vnodeCache[lastOp.val].inodeNum

\* The file named by the image's Interpreter segment.
InterpreterOf(image) ==
    image.programHeaders[Least(InterpreterHeaders(image.programHeaders))].rtdl

\* The entry a load without an interpreter returns for this image.
OwnEntry(image) ==
    IF image.type = "Shared" THEN RTDL_ADDR + image.entry ELSE image.entry

SwitchedWith(c, remainingTime) ==
    \/ remainingTime = 0 /\ LAPICTimerInterrupt(c)
    \/ \E rax \in RaxValues : Int81At(c, remainingTime, rax)
    \/ /\ InUser(c)
       /\ SwitchToNextTask(c, remainingTime, cpu[c], FALSE,
                           Op("Exit", c, currentTask[c].pid, 0))

\* The pids whose entry with unblockOnExpire expires after deltaTime.
ExpiredPids(entries, deltaTime) ==
    {entries[i].pid : i \in {j \in 1..Len(entries) :
                                /\ entries[j].milliseconds <= deltaTime
                                /\ entries[j].unblockOnExpire}}

\* C28: a switch that does not halt reduces every timer entry by the
\* elapsed time (armed time minus the LAPIC's remaining time): the entries
\* left are those that had more than the elapsed time, in their order, each
\* reduced by it and strictly positive; the others are removed. A queued
\* Blocked task is unblocked exactly when an entry with unblockOnExpire
\* for its pid expired.
C28_TimerEntriesUpdated ==
    [][\A remainingTime \in TimeRemaining(BSP) :
          (/\ lastOp'.op \in {"Timer", "Int81", "Exit"}
           /\ panic' = "none"
           /\ SwitchedWith(BSP, remainingTime))
          => LET deltaTime == currentTimerTime[BSP] - remainingTime
                 pending == SelectSeq(timerEntries[BSP],
                               LAMBDA e : e.milliseconds > deltaTime)
                 expired == ExpiredPids(timerEntries[BSP], deltaTime)
             IN  /\ deltaTime > 0
                 /\ timerEntries'[BSP]
                       = [j \in 1..Len(pending) |->
                             [pending[j] EXCEPT
                                 !.milliseconds = @ - deltaTime]]
                 /\ \A j \in 1..Len(timerEntries'[BSP]) :
                        timerEntries'[BSP][j].milliseconds > 0
                 /\ \A i \in 1..Len(taskQueue) :
                        taskQueue[i].state = "Blocked"
                        => IF taskQueue[i].pid \in expired
                           THEN \A k \in 1..Len(taskQueue') :
                                   taskQueue'[k].pid = taskQueue[i].pid
                                   => taskQueue'[k].state = "Normal"
                           ELSE \E k \in 1..Len(taskQueue') :
                                   taskQueue'[k] = taskQueue[i]]_vars

\* After a switch a sleeper woken by the expiry of its entry runs again
\* (it is back from int 0x81 in state Normal) while another entry is
\* still pending with time left.
C28_Witness ==
    /\ lastOp.op \in {"Timer", "Int81"}
    /\ panic = "none"
    /\ cpu[BSP].rip = "resumed"
    /\ currentTask[BSP].state = "Normal"
    /\ Len(timerEntries[BSP]) >= 1
    /\ \A j \in 1..Len(timerEntries[BSP]) :
           /\ timerEntries[BSP][j].milliseconds \in 1..(MaxSleep - 1)
           /\ timerEntries[BSP][j].pid # currentTask[BSP].pid

\* C29: a switch saves the interrupted frame into the running task and
\* appends the task to the queue only when the task's state is Normal: a
\* running task that is Blocked or WaitingForChild is not queued by the
\* switch, its frame is dropped.
C29_SuspendedFrameDropped ==
    [][(/\ lastOp'.op \in {"Timer", "Int81"}
        /\ panic' = "none"
        /\ currentTask[lastOp'.cpu].pid # 0
        /\ currentTask[lastOp'.cpu].state # "Normal")
       => currentTask[lastOp'.cpu].pid \notin QueuePids(taskQueue')]_vars

PidSeq(q) == [i \in 1..Len(q) |-> q[i].pid]

\* a is b with some elements left out: the elements of a occur in b in the
\* same order.
RECURSIVE IsSubSeq(_, _)
IsSubSeq(a, b) ==
    IF a = <<>> THEN TRUE
    ELSE IF b = <<>> THEN FALSE
    ELSE IF Head(a) = Head(b) THEN IsSubSeq(Tail(a), Tail(b))
    ELSE IsSubSeq(a, Tail(b))

\* C30: a switch that completes leaves every queued entry that is not
\* Normal (and has no timer entry to unblock it) in the queue as it was,
\* and the entries left in the queue are in the order they had, the task
\* that was running coming last if it was queued.
C30_SwitchKeepsSuspended ==
    [][(lastOp'.op \in {"Timer", "Int81", "Exit"} /\ panic' = "none")
       => /\ \A i \in 1..Len(taskQueue) :
                (/\ taskQueue[i].state # "Normal"
                 /\ \A j \in 1..Len(timerEntries[lastOp'.cpu]) :
                        timerEntries[lastOp'.cpu][j].pid # taskQueue[i].pid)
                => \E k \in 1..Len(taskQueue') : taskQueue'[k] = taskQueue[i]
          /\ IsSubSeq(PidSeq(taskQueue'),
                      Append(PidSeq(taskQueue),
                             currentTask[lastOp'.cpu].pid))]_vars

\* After a switch a task runs while the queue holds two or more entries,
\* a Blocked one among them.
C30_Witness ==
    /\ lastOp.op \in {"Timer", "Int81"}
    /\ panic = "none"
    /\ currentTask[BSP].pid # 0
    /\ Len(taskQueue) >= 2
    /\ \E i \in 1..Len(taskQueue) : taskQueue[i].state = "Blocked"

\* C31: a wake-up of a suspended task issued on another core never halts
\* the kernel and is never lost: whenever Unsuspend runs for a task that
\* has entered SuspendSystemCall, the task is found and is Normal in the
\* run queue afterwards.
C31_WakeUpFindsTask ==
    [][lastOp'.op = "Unsuspend"
       => /\ panic' = "none"
          /\ \E i \in 1..Len(taskQueue') :
                 /\ taskQueue'[i].pid = lastOp'.pid
                 /\ taskQueue'[i].state = "Normal"]_vars

\* C32: no switch halts in the Unblock of an expired timer entry: the task
\* the entry names is found in the run queue (GetTask does not reach
\* Panic) and is Blocked (the assertion of Unblock holds), also in the
\* switch entered from the Sleep call that pushed the entry.
C32_ExpiredEntryFindsTask ==
    [][lastOp'.op \in {"Timer", "Int81", "Exit"}
       => panic' \notin {"GetTask", "UnblockState"}]_vars

\* C33: the assertion currentTimerTime > remainingTime of UpdateTimerEntries
\* holds in every switch, entered from the timer interrupt, from int 0x81
\* or from exit, whatever the LAPIC reports as remaining.
C33_ElapsedAssertionHolds ==
    [][lastOp'.op \in {"Timer", "Int81", "Exit"}
       => panic' # "TimerElapsed"]_vars

\* C34: the time that had elapsed in the timer period before Sleep(ms)
\* pushed its entry is not subtracted from the entry: after the switch
\* entered from the Sleep call the sleeper's entry still holds ms, so the
\* sleeper is not made Normal before ms have elapsed since the call.
C34_SleepCountsFromCall ==
    [][(lastOp.op = "Sleep" /\ lastOp'.op = "Int81" /\ panic' = "none")
       => \E j \in 1..Len(timerEntries'[lastOp.cpu]) :
              /\ timerEntries'[lastOp.cpu][j].pid = lastOp.pid
              /\ timerEntries'[lastOp.cpu][j].milliseconds = lastOp.val]_vars

\* C35: an open changes one slot of the caller's table, the one whose index
\* it returns: every other slot, free or in use, keeps its present flag,
\* its offset and its vnode.
C35_OpenChangesOneSlot ==
    [][(lastOp'.op = "Open" /\ panic' = "none")
       => \A i \in 0..(Len(CallerTable) - 1) :
              i # lastOp'.val
              => CallerTableAfter[i + 1] = CallerTable[i + 1]]_vars

\* The descriptor refers to /dev/tty: its vnode is the one the path
\* resolves to, the character device named tty.
RefersToTty(fs, fileDescriptor) ==
    /\ fileDescriptor.vNode.name = "tty"
    /\ fileDescriptor.vNode.inodeNum = Resolve(fs, TtyPath, Len(TtyPath))
    /\ fs[fileDescriptor.vNode.inodeNum].type = "CharacterDevice"

\* C36: loading a program does not halt (the three Asserts hold): on the
\* new VFS's empty table the three opens return 0, 1 and 2 in that order,
\* the table then holds exactly the descriptors 0, 1 and 2, present, at
\* offset 0 and referring to /dev/tty, and the task that owns the table is
\* appended to the run queue.
C36_ExecOpensTty ==
    [][lastOp'.op = "Exec"
       => LET pid == lastOp'.pid
              first == Open(fileDescriptors[pid], inodes, TtyPath,
                            {"ReadWrite"})
              second == Open(first.table, first.inodes, TtyPath,
                             {"ReadWrite"})
              third == Open(second.table, second.inodes, TtyPath,
                            {"ReadWrite"})
              table == fileDescriptors'[pid]
          IN  /\ panic' = "none"
              /\ fileDescriptors[pid] = <<>>
              /\ <<first.descriptor, second.descriptor, third.descriptor>>
                     = <<0, 1, 2>>
              /\ table = third.table
              /\ Len(table) = 3
              /\ \A d \in 1..3 : /\ table[d].present
                                  /\ table[d].offset = 0
                                  /\ RefersToTty(inodes', table[d])
              /\ inodes' = inodes
              /\ Len(taskQueue') = Len(taskQueue) + 1
              /\ taskQueue'[Len(taskQueue')].pid = pid
              /\ taskQueue'[Len(taskQueue')].vfs = pid
              /\ taskQueue'[Len(taskQueue')].state = "Normal"]_vars

\* The last program the bounds allow has been loaded: it is at the tail
\* of the run queue and its table holds three descriptors on /dev/tty.
C36_Witness ==
    /\ lastOp.op = "Exec"
    /\ lastOp.pid = MaxPid
    /\ panic = "none"
    /\ taskQueue # <<>>
    /\ taskQueue[Len(taskQueue)].pid = MaxPid
    /\ Len(fileDescriptors[MaxPid]) = 3
    /\ \A d \in 1..3 : /\ fileDescriptors[MaxPid][d].present
                        /\ RefersToTty(inodes, fileDescriptors[MaxPid][d])

\* Where the segment starts in memory.
SegmentBase(programHeader, type) ==
    IF type = "Shared" THEN programHeader.virtAddr + RTDL_ADDR
    ELSE programHeader.virtAddr

\* The pages that overlap [base, base + segmentSizeInMemory).
OverlappedPages(base, segmentSizeInMemory) ==
    {k * PageSize :
        k \in (base \div PageSize)
                ..((base + segmentSizeInMemory - 1) \div PageSize)}

RECURSIVE SumReadCounts(_, _)
SumReadCounts(pages, n) ==
    IF n = 0 THEN 0 ELSE SumReadCounts(pages, n - 1) + pages[n].readCount

\* C37: for a Load segment the loader maps every page that overlaps
\* [virtAddr, virtAddr + segmentSizeInMemory), copies the first
\* segmentSizeInFile bytes of the segment and no more, each run of bytes
\* into its mapped page at the address it belongs to, so that the rest of
\* the mapped pages stays zero.
C37_SegmentLoaded ==
    lastOp.op = "LoadProgramHeader"
    => LET programHeader == lastOp.val.programHeader
           pages == lastOp.val.pages
           base == SegmentBase(programHeader, lastOp.val.type)
       IN  /\ {pages[i].pageAddr : i \in 1..Len(pages)}
                  = OverlappedPages(base, programHeader.segmentSizeInMemory)
           /\ SumReadCounts(pages, Len(pages))
                  = programHeader.segmentSizeInFile
           /\ \A i \in 1..Len(pages) :
                  pages[i].readCount > 0
                  => /\ pages[i].pageAddr + pages[i].frameOffset
                            = base + pages[i].fileOffset
                     /\ pages[i].frameOffset + pages[i].readCount
                            <= PageSize

\* The words of the stack read upward from the stack pointer, which is
\* 8 * Len(pushed) bytes below USER_STACK_BASE.
ReadUpward(pushed) ==
    [j \in 1..Len(pushed) |-> pushed[Len(pushed) + 1 - j]]

\* C38: for an Executable image with an Interpreter segment the stack read
\* upward from the returned stack pointer holds argc 0, the terminators of
\* argv and envp, and the pairs (9, entry of the executable), (5, number
\* of program headers), (4, size of a program header), (3, address of the
\* program header table), (0, 0); the stack pointer is 0x7FFFFFFFF000
\* minus the 104 bytes pushed, and 0x7FFFFFFFF000 for an Executable image
\* without an Interpreter segment.
C38_InitialStack ==
    (/\ lastOp.op = "LoadELF"
     /\ panic = "none"
     /\ lastOp.val.image.type = "Executable")
    => LET image == lastOp.val.image
       IN  IF InterpreterHeaders(image.programHeaders) # {}
           THEN /\ ReadUpward(lastOp.val.stack)
                      = <<0, 0, 0,
                          9, image.entry,
                          5, Len(image.programHeaders),
                          4, ProgramHeaderEntrySize,
                          3, ProgramHeaderTableAddr(image.programHeaders),
                          0, 0>>
                /\ lastOp.val.stackPtr = Addr(8388607, 16773120 - 104)
           ELSE /\ lastOp.val.stack = <<>>
                /\ lastOp.val.stackPtr = Addr(8388607, 16773120)

\* An Executable image with a ProgramHeaderTable segment followed by an
\* Interpreter segment has been loaded and the frame is on its stack.
C38_Witness ==
    /\ lastOp.op = "LoadELF"
    /\ panic = "none"
    /\ lastOp.val.image.type = "Executable"
    /\ Len(lastOp.val.image.programHeaders) = MaxHeaders
    /\ lastOp.val.image.programHeaders[1].type = "ProgramHeaderTable"
    /\ lastOp.val.image.programHeaders[MaxHeaders].type = "Interpreter"
    /\ lastOp.val.image.entry = MaxEntry
    /\ Len(lastOp.val.stack) = 13
    /\ lastOp.val.stack[3] = PhdrAddr
    /\ lastOp.val.stack[9] = MaxEntry
    /\ lastOp.val.stackPtr = AddrSub(USER_STACK_BASE, 104)

====
